---------------------------- MODULE Spec2Model ----------------------------
(***************************************************************************)
(* A model of LightwaveExplorer.py: the loader of a simulation result      *)
(* (lightwaveExplorerResult.__init__, load), the re-stacking of single     *)
(* points (loadSplit) and the two byte-level fusions (fuseBinaries,        *)
(* fuseZips).                                                              *)
(*                                                                         *)
(* Numbers.  A Python float is modelled by an exact rational <<n, d>>;     *)
(* the unit factors of the batch table (1e12, pi, 1e-15, ...) do not fit   *)
(* an integer and are kept symbolic: a scaled number is a mantissa and a   *)
(* sequence of factor names.  Rounding error of IEEE doubles is outside    *)
(* the model.                                                              *)
(*                                                                         *)
(* Bytes.  The content of a binary file is a rope: a sequence of pieces    *)
(* [id, off, len], the bytes off .. off+len-1 of the blob `id` that the    *)
(* simulation wrote.  A double is 8 bytes; the double at element j of a    *)
(* rope is named by the blob and the position it came from, so that two    *)
(* arrays are equal exactly when they hold the same bytes at every index.  *)
(*                                                                         *)
(* Arrays.  A numpy array is the strided view numpy itself keeps: a        *)
(* shape, strides and an offset into a buffer of doubles.                  *)
(***************************************************************************)
EXTENDS Integers, Sequences, FiniteSets, TLC

(***************************************************************************)
(* Bounds of the model.                                                    *)
(***************************************************************************)
MaxNsims == 2
MaxNsims2 == 2
MaxShards == 3
MaxScan == 3

(***************************************************************************)
(* Program constants.                                                      *)
(***************************************************************************)
MIN_GRIDDIM == 8
ItemSize == 8
PadWidth == 4
ChunkBytes == 134217728

(***************************************************************************)
(* Small helpers.                                                          *)
(***************************************************************************)
Abs(x) == IF x < 0 THEN -x ELSE x

Min(a, b) == IF a < b THEN a ELSE b

Max(a, b) == IF a < b THEN b ELSE a

RECURSIVE GCD(_, _)
GCD(a, b) == IF b = 0 THEN a ELSE GCD(b, a % b)

RECURSIVE Product(_)
Product(s) == IF s = <<>> THEN 1 ELSE Head(s) * Product(Tail(s))

RECURSIVE SumSeq(_)
SumSeq(s) == IF s = <<>> THEN 0 ELSE Head(s) + SumSeq(Tail(s))

Reverse(s) == [i \in 1..Len(s) |-> s[Len(s) + 1 - i]]

(***************************************************************************)
(* Python floats as exact rationals <<n, d>>, d > 0, in lowest terms.      *)
(***************************************************************************)
Rat(n, d) ==
    LET g == GCD(Abs(n), Abs(d))
        s == IF d < 0 THEN -1 ELSE 1
    IN  <<(s * n) \div g, (s * d) \div g>>

RInt(n) == <<n, 1>>

RAdd(a, b) == Rat(a[1] * b[2] + b[1] * a[2], a[2] * b[2])

RSub(a, b) == Rat(a[1] * b[2] - b[1] * a[2], a[2] * b[2])

RMul(a, b) == Rat(a[1] * b[1], a[2] * b[2])

RDiv(a, b) == Rat(a[1] * b[2], a[2] * b[1])

RIsZero(a) == a[1] = 0

(* int(x): truncation toward zero. *)
PyInt(a) == IF a[1] >= 0 THEN a[1] \div a[2] ELSE -((-a[1]) \div a[2])

(* np.round(x): to the nearest integer, a tie to the even one. *)
NpRoundHalfUp(a) == (2 * a[1] + a[2]) \div (2 * a[2])

NpRound(a) ==
    LET fl == a[1] \div a[2]
        twice == 2 * (a[1] - fl * a[2])
    IN  IF twice < a[2] THEN fl
        ELSE IF twice > a[2] THEN fl + 1
        ELSE IF fl % 2 = 0 THEN fl ELSE fl + 1

(***************************************************************************)
(* Scaled numbers c + s*u: u is a product of symbolic unit factors, given  *)
(* as the sequence of their names (<<>> is the factor 1).                  *)
(***************************************************************************)
Lin(c, s, u) ==
    IF u = <<>> THEN [c |-> RAdd(c, s), s |-> RInt(0), u |-> <<>>]
    ELSE IF RIsZero(s) THEN [c |-> c, s |-> RInt(0), u |-> <<>>]
    ELSE [c |-> c, s |-> s, u |-> u]

LinOfRat(a) == Lin(a, RInt(0), <<>>)

(* a mantissa times a product of unit factors *)
Scaled(m, u) == Lin(RInt(0), m, u)

(* the unit of a sum of two scaled numbers that share at most one unit *)
LinUnit(a, b) == IF a.u = <<>> THEN b.u ELSE a.u

LinAdd(a, b) == Lin(RAdd(a.c, b.c), RAdd(a.s, b.s), LinUnit(a, b))

LinSub(a, b) == Lin(RSub(a.c, b.c), RSub(a.s, b.s), LinUnit(a, b))

LinTimes(q, a) == Lin(RMul(q, a.c), RMul(q, a.s), a.u)


(***************************************************************************)
(* File names.  A name is a sequence of tokens; TokRank orders the tokens  *)
(* as Python orders the strings (by the code points of their characters:   *)
(* '.' 0x2e < digits 0x30.. < 'R' 0x52 < '_' 0x5f, and 't' < 'z',          *)
(* 'E' < 's'), and no token is a prefix of another, so comparing names     *)
(* token by token is comparing the strings character by character.         *)
(***************************************************************************)
DigitTok == <<"0", "1", "2", "3", "4", "5", "6", "7", "8", "9">>

TokRank(t) ==
    CASE t = ".txt" -> 1
      [] t = ".zip" -> 2
      [] t = "0" -> 3
      [] t = "1" -> 4
      [] t = "2" -> 5
      [] t = "3" -> 6
      [] t = "4" -> 7
      [] t = "5" -> 8
      [] t = "6" -> 9
      [] t = "7" -> 10
      [] t = "8" -> 11
      [] t = "9" -> 12
      [] t = "R" -> 13
      [] t = "_Ext.dat" -> 14
      [] t = "_spectrum.dat" -> 15

(* str < str *)
RECURSIVE StrLess(_, _)
StrLess(a, b) ==
    IF b = <<>> THEN FALSE
    ELSE IF a = <<>> THEN TRUE
    ELSE IF Head(a) = Head(b) THEN StrLess(Tail(a), Tail(b))
    ELSE TokRank(Head(a)) < TokRank(Head(b))

(* str.startswith, str.endswith *)
StartsWith(name, prefix) ==
    /\ Len(prefix) <= Len(name)
    /\ SubSeq(name, 1, Len(prefix)) = prefix

EndsWith(name, ending) ==
    /\ Len(name) >= 1
    /\ name[Len(name)] = ending

(* list.sort() / sorted() of a listing: the names in increasing order *)
RECURSIVE SortedReversed(_)
SortedReversed(S) ==
    IF S = {} THEN <<>>
    ELSE LET m == CHOOSE x \in S : \A y \in S : x = y \/ StrLess(y, x)
         IN  <<m>> \o SortedReversed(S \ {m})

RECURSIVE Sorted(_)
Sorted(S) ==
    IF S = {} THEN <<>>
    ELSE LET m == CHOOSE x \in S : \A y \in S : x = y \/ StrLess(x, y)
         IN  <<m>> \o Sorted(S \ {m})

(* f"{i:04d}": the decimal digits of i, zero-padded to PadWidth at least *)
RECURSIVE Digits(_)
Digits(i) ==
    IF i < 10 THEN <<DigitTok[i + 1]>>
    ELSE Digits(i \div 10) \o <<DigitTok[(i % 10) + 1]>>

RECURSIVE ZeroPad(_, _)
ZeroPad(ds, width) ==
    IF Len(ds) >= width THEN ds ELSE ZeroPad(<<"0">> \o ds, width)

Format04d(i) == ZeroPad(Digits(i), PadWidth)

(* A path as given by a caller: a directory part ("" or "./", both the     *)
(* working directory) and a name.                                          *)
Path(dir, name) == [dir |-> dir, name |-> name]

Extensions == {".txt", ".zip"}

(* os.path.basename *)
Basename(path) == path.name

(* os.path.splitext(...)[0] of a name and of a path *)
SplitextName(name) ==
    IF Len(name) >= 2 /\ name[Len(name)] \in Extensions
    THEN SubSeq(name, 1, Len(name) - 1)
    ELSE name

SplitextPath(path) == Path(path.dir, SplitextName(path.name))

(* path + ending *)
PathPlus(path, ending) == Path(path.dir, path.name \o <<ending>>)

(* the entry of the working directory that a path opens *)
OnDisk(path) == path.name

(***************************************************************************)
(* Bytes: ropes of pieces [id, off, len].                                  *)
(***************************************************************************)
Piece(id, off, len) == [id |-> id, off |-> off, len |-> len]

Blob(id, len) == IF len = 0 THEN <<>> ELSE <<Piece(id, 0, len)>>

RopeLen(r) == SumSeq([i \in 1..Len(r) |-> r[i].len])

(* r followed by the piece p; contiguous bytes of one blob are one piece *)
RopePush(r, p) ==
    IF p.len = 0 THEN r
    ELSE IF r = <<>> THEN <<p>>
    ELSE LET l == r[Len(r)]
         IN  IF l.id = p.id /\ l.off + l.len = p.off
             THEN [r EXCEPT ![Len(r)] = Piece(l.id, l.off, l.len + p.len)]
             ELSE Append(r, p)

RECURSIVE RopeConcat(_, _)
RopeConcat(r, q) ==
    IF q = <<>> THEN r ELSE RopeConcat(RopePush(r, Head(q)), Tail(q))

(* the first n bytes of r, and r without them *)
RECURSIVE RopeTake(_, _)
RopeTake(r, n) ==
    IF n <= 0 \/ r = <<>> THEN <<>>
    ELSE LET p == Head(r)
         IN  IF p.len <= n THEN <<p>> \o RopeTake(Tail(r), n - p.len)
             ELSE <<Piece(p.id, p.off, n)>>

RECURSIVE RopeDrop(_, _)
RopeDrop(r, n) ==
    IF n <= 0 \/ r = <<>> THEN r
    ELSE LET p == Head(r)
         IN  IF p.len <= n THEN RopeDrop(Tail(r), n - p.len)
             ELSE <<Piece(p.id, p.off + n, p.len - n)>> \o Tail(r)

(* The double at element j of a buffer: its ItemSize bytes. *)
ElemAt(r, j) == RopeTake(RopeDrop(r, ItemSize * j), ItemSize)

(***************************************************************************)
(* Files.  A manifest has lines, a binary file has bytes, an archive has   *)
(* entries (a function from entry names to files).                         *)
(***************************************************************************)
TxtFile(lines) == [kind |-> "txt", lines |-> lines, bytes |-> <<>>, entries |-> <<>>]

DatFile(bytes) == [kind |-> "dat", lines |-> <<>>, bytes |-> bytes, entries |-> <<>>]

ZipFile(entries) == [kind |-> "zip", lines |-> <<>>, bytes |-> <<>>, entries |-> entries]

(* a file that the user may not read: open() raises PermissionError *)
Denied(file) == [file EXCEPT !.kind = "denied"]

Readable(file) == file.kind # "denied"

(* a function with one more (or one replaced) mapping *)
Put(f, k, v) == [x \in (DOMAIN f) \cup {k} |-> IF x = k THEN v ELSE f[x]]

Kept(f, k) == f

Remove(f, k) == [x \in (DOMAIN f) \ {k} |-> f[x]]

(***************************************************************************)
(* numpy arrays.  A view has a shape, strides (in elements), an offset and *)
(* a buffer; a stack is what loadSplit builds: N slots along one axis,     *)
(* each filled by an assignment or still zero.                             *)
(***************************************************************************)
NoArray ==
    [kind |-> "none", shape |-> <<>>, strides |-> <<>>, off |-> 0,
     buf |-> <<>>, slots |-> <<>>, axis |-> 0]

View(shape, strides, off, buf) ==
    [kind |-> "view", shape |-> shape, strides |-> strides, off |-> off,
     buf |-> buf, slots |-> <<>>, axis |-> 0]

(* np.fromfile(f, dtype=np.double): the whole doubles of the file; bytes   *)
(* after the last whole double are not read.                               *)
FromFile(bytes) ==
    LET n == RopeLen(bytes) \div ItemSize
    IN  View(<<n>>, <<1>>, 0, RopeTake(bytes, n * ItemSize))

(* np.frombuffer(b, dtype=np.double) needs a whole number of doubles *)
FromBufferOk(bytes) == RopeLen(bytes) % ItemSize = 0

FromBuffer(bytes) == View(<<RopeLen(bytes) \div ItemSize>>, <<1>>, 0, bytes)

(* a[0:n] of a one-dimensional array *)
Prefix(a, n) == [a EXCEPT !.shape = <<Min(a.shape[1], Max(n, 0))>>]

(* column-major strides of a shape *)
FStrides(shape) == [i \in 1..Len(shape) |-> Product(SubSeq(shape, 1, i - 1))]

(* np.reshape(a, shape, order='F') of a one-dimensional array *)
ReshapeOk(a, shape) ==
    /\ \A i \in 1..Len(shape) : shape[i] >= 0
    /\ Product(shape) = a.shape[1]

ReshapeF(a, shape) ==
    View(shape, [i \in 1..Len(shape) |-> a.strides[1] * FStrides(shape)[i]], a.off, a.buf)

(* the number of indices of the slice start:stop:step of an axis of length n *)
SliceCount(n, start, stop, step) ==
    LET lo == Min(start, n)
        hi == Min(stop, n)
    IN  IF hi <= lo THEN 0 ELSE (hi - lo + step - 1) \div step

(* a[..., start:stop:step, ...] on one axis (axes count from 1) *)
SliceAxis(a, ax, start, stop, step) ==
    [a EXCEPT !.shape[ax] = SliceCount(a.shape[ax], start, stop, step),
              !.strides[ax] = a.strides[ax] * step,
              !.off = a.off + Min(start, a.shape[ax]) * a.strides[ax]]

(* a sequence without its i-th element *)
DropAt(s, i) == SubSeq(s, 1, i - 1) \o SubSeq(s, i + 1, Len(s))

(* a[..., i, ...]: an integer index removes the axis *)
IndexAxis(a, ax, i) ==
    [a EXCEPT !.shape = DropAt(a.shape, ax),
              !.strides = DropAt(a.strides, ax),
              !.off = a.off + i * a.strides[ax]]

(* np.squeeze: every axis of extent 1 is removed *)
RECURSIVE KeepAxes(_, _)
KeepAxes(shape, i) ==
    IF i > Len(shape) THEN <<>>
    ELSE (IF shape[i] = 1 THEN <<>> ELSE <<i>>) \o KeepAxes(shape, i + 1)

Squeeze(a) ==
    LET keep == KeepAxes(a.shape, 1)
    IN  [a EXCEPT !.shape = [i \in 1..Len(keep) |-> a.shape[keep[i]]],
                  !.strides = [i \in 1..Len(keep) |-> a.strides[keep[i]]]]

(* a.T: the axes reversed *)
Transpose(a) == [a EXCEPT !.shape = Reverse(a.shape), !.strides = Reverse(a.strides)]

(* np.zeros(shape) as loadSplit uses it: along one axis, a slot per shard *)
Zeros(shape, axis) ==
    [kind |-> "stack", shape |-> shape, strides |-> <<>>, off |-> 0, buf |-> <<>>,
     slots |-> [i \in 1..shape[axis] |-> NoArray], axis |-> axis]

(* Whether a value of shape v can be assigned to a target of shape t:     *)
(* axes are matched from the last, a value axis has the target's extent   *)
(* or extent 1, and value axes beyond the target's have extent 1.         *)
BroadcastOk(v, t) ==
    /\ \A i \in 1..(Len(v) - Len(t)) : v[i] = 1
    /\ \A i \in 1..Min(Len(v), Len(t)) :
          \/ v[Len(v) - i + 1] = t[Len(t) - i + 1]
          \/ v[Len(v) - i + 1] = 1

(* the value as the target sees it: a repeated axis has stride 0 *)
Broadcast(a, t) ==
    LET shift == Len(a.shape) - Len(t)
    IN  [a EXCEPT !.shape = t,
                  !.strides = [i \in 1..Len(t) |->
                                  IF i + shift < 1 THEN 0
                                  ELSE IF a.shape[i + shift] = 1 THEN 0
                                  ELSE a.strides[i + shift]]]

(* a[..., i] = value and a[i, :] = value on the axis of the slots *)
SetSlotOk(a, i, value) ==
    /\ i < a.shape[a.axis]
    /\ BroadcastOk(value.shape, DropAt(a.shape, a.axis))

SetSlot(a, i, value) ==
    [a EXCEPT !.slots[i + 1] = Broadcast(value, DropAt(a.shape, a.axis))]


(***************************************************************************)
(* The manifest.  A line is a sequence of tokens, each a number or a word; *)
(* readLine gives the last number of the line.                             *)
(***************************************************************************)
parameterNames ==
    <<"pulseEnergy1",
      "pulseEnergy2",
      "frequency1",
      "frequency2",
      "bandwidth1",
      "bandwidth2",
      "superGaussianOrder1",
      "superGaussianOrder2",
      "cePhase1",
      "cePhase2",
      "delay1",
      "delay2",
      "gdd1",
      "gdd2",
      "tod1",
      "tod2",
      "phaseMaterialIndex1",
      "phaseMaterialIndex2",
      "phaseMaterialThickness1",
      "phaseMaterialthickness2",
      "BeamModeParameter",
      "beamwaist1",
      "beamwaist2",
      "x01",
      "x02",
      "y01",
      "y02",
      "z01",
      "z02",
      "propagationAngle1",
      "propagationAngle2",
      "propagationAnglePhi1",
      "propagationAnglePhi2",
      "polarizationAngle1",
      "polarizationAngle2",
      "circularity1",
      "circularity2",
      "materialIndex",
      "materialIndexAlternate",
      "crystalTheta",
      "crystalPhi",
      "spatialWidth",
      "spatialHeight",
      "spatialStep",
      "timeSpan",
      "timeStep",
      "crystalThickness",
      "propagationStep",
      "nonlinearAbsorptionStrength",
      "bandGapElectronVolts",
      "effectiveMass",
      "drudeGamma",
      "symmetryType",
      "batchIndex",
      "batchDestination",
      "Nsims",
      "batchIndex2",
      "batchDestination2",
      "Nsims2">>

NumTok(v) == [num |-> TRUE, val |-> v, txt |-> ""]

WordTok(w) == [num |-> FALSE, val |-> <<0, 1>>, txt |-> w]

(* a number written with thousands separators, as 1,000: the pattern of *)
(* readLine takes it for one number, and float() does not accept it      *)
GroupedTok(v) == [num |-> TRUE, val |-> v, txt |-> ","]

IsNum(t) == t.num

(* re.findall(...): the numbers of the line, in order *)
FindAll(line) == SelectSeq(line, IsNum)

readLineOk(line) == FindAll(line) # <<>>

(* float(rr[-1]) raises ValueError for what is no literal of a float *)
floatOk(line) == FindAll(line)[Len(FindAll(line))].txt = ""

readLineFirst(line) == FindAll(line)[1].val

readLine(line) == FindAll(line)[Len(FindAll(line))].val

(***************************************************************************)
(* The object under construction: its scalar attributes (attrs, with the   *)
(* unit factors a value was multiplied by in units), its arrays, its       *)
(* vectors, the exception that ended the construction (err) and the        *)
(* handles it opened and did not close (unclosed).                         *)
(***************************************************************************)
NoVector == [kind |-> "none", v |-> <<>>]

ArrayVector(v) == [kind |-> "array", v |-> v]

ScalarVector(x) == [kind |-> "scalar", v |-> <<x>>]

NoAlias == [len |-> 0, set |-> FALSE]

EmptySelf ==
    [err |-> "",
     attrs |-> [x \in {} |-> <<0, 1>>],
     units |-> [x \in {} |-> <<>>],
     Ext_x |-> NoArray, Ext_y |-> NoArray,
     spectrumTotal |-> NoArray, spectrum_x |-> NoArray, spectrum_y |-> NoArray,
     batchVector |-> NoVector, batchVector2 |-> NoVector,
     timeVector |-> <<>>, frequencyVector |-> <<>>,
     frequencyVectorSpectrum |-> NoAlias, spaceVector |-> <<>>,
     unclosed |-> {}]

Fail(self, e) == [self EXCEPT !.err = e]

Failed(self) == self.err # ""

Then(self, Step(_)) == IF Failed(self) THEN self ELSE Step(self)

HasAttr(self, n) == n \in DOMAIN self.attrs

SetAttr(self, n, v) == [self EXCEPT !.attrs = Put(self.attrs, n, v)]

SetInt(self, n, i) == SetAttr(self, n, RInt(i))

IntAttr(self, n) == self.attrs[n][1]

UnitOf(self, n) == IF n \in DOMAIN self.units THEN self.units[n] ELSE <<>>

(* self.n *= factor *)
MulAttr(self, n, factor) ==
    [self EXCEPT !.units = Put(self.units, n, UnitOf(self, n) \o factor)]

(* the value of self.n *)
AttrValue(self, n) == Scaled(self.attrs[n], UnitOf(self, n))

(***************************************************************************)
(* Opening the manifest (lines 86-98).                                     *)
(***************************************************************************)
Source(err, isZip, archive, fileBase, filePrefix, lines, unclosed) ==
    [err |-> err, isZip |-> isZip, archive |-> archive, fileBase |-> fileBase,
     filePrefix |-> filePrefix, lines |-> lines, unclosed |-> unclosed]

OpenSettings(fs, filePath) ==
    IF EndsWith(filePath.name, ".zip")
    THEN LET archive == OnDisk(filePath)
             fileBase == SplitextName(Basename(filePath))
             entry == fileBase \o <<".txt">>
             none == Path("", <<>>)
         IN  IF archive \notin DOMAIN fs
             THEN Source("FileNotFoundError", TRUE, archive, fileBase, none, <<>>, {})
             ELSE IF ~Readable(fs[archive])
             THEN Source("PermissionError", TRUE, archive, fileBase, none, <<>>, {})
             ELSE IF fs[archive].kind # "zip"
             THEN Source("BadZipFile", TRUE, archive, fileBase, none, <<>>, {})
             ELSE IF entry \notin DOMAIN fs[archive].entries
             THEN Source("KeyError", TRUE, archive, fileBase, none, <<>>, {"archive"})
             ELSE Source("", TRUE, archive, fileBase, none,
                         fs[archive].entries[entry].lines, {"archive", "settingsFile"})
    ELSE LET name == OnDisk(filePath)
             prefix == SplitextPath(filePath)
         IN  IF name \notin DOMAIN fs
             THEN Source("FileNotFoundError", FALSE, <<>>, <<>>, prefix, <<>>, {})
             ELSE IF ~Readable(fs[name])
             THEN Source("PermissionError", FALSE, <<>>, <<>>, prefix, <<>>, {})
             ELSE IF fs[name].kind # "txt"
             THEN Source("UnicodeDecodeError", FALSE, <<>>, <<>>, prefix, <<>>, {"settingsFile"})
             ELSE Source("", FALSE, <<>>, <<>>, prefix, fs[name].lines, {"settingsFile"})

(***************************************************************************)
(* Parsing (lines 100-112): the i-th name is bound to the number of the    *)
(* i-th line; five attributes are cast to int.  The loop stops at the      *)
(* first line that is missing or holds no number (IndexError) or whose     *)
(* last number is no literal of a float (ValueError).                      *)
(***************************************************************************)
LineError(lines, i) ==
    IF i > Len(lines) THEN "IndexError"
    ELSE IF ~readLineOk(lines[i]) THEN "IndexError"
    ELSE IF ~floatOk(lines[i]) THEN "ValueError"
    ELSE ""

ParseParameters(self, lines) ==
    LET n == Len(parameterNames)
        bad == {i \in 1..n : LineError(lines, i) # ""}
    IN  IF bad # {}
        THEN Fail(self, LineError(lines, CHOOSE i \in bad : \A j \in bad : i <= j))
        ELSE [self EXCEPT !.attrs =
                 [x \in {parameterNames[i] : i \in 1..n} |->
                     LET i == CHOOSE j \in 1..n :
                                 /\ parameterNames[j] = x
                                 /\ \A k \in (j + 1)..n : parameterNames[k] # x
                     IN  readLine(lines[i])]]

IntegerParameters == <<"Nsims", "Nsims2", "symmetryType", "batchIndex", "batchIndex2">>

RECURSIVE CastAll(_, _)
CastAll(self, ns) ==
    IF ns = <<>> THEN self
    ELSE CastAll(SetInt(self, Head(ns), PyInt(self.attrs[Head(ns)])), Tail(ns))

CastIntegers(self) == CastAll(self, IntegerParameters)

(***************************************************************************)
(* The derived grid (lines 115-124).                                       *)
(***************************************************************************)
GridDimHalfUp(span, step) ==
    MIN_GRIDDIM * NpRoundHalfUp(RDiv(span, RMul(RInt(MIN_GRIDDIM), step)))

GridDim(span, step) ==
    MIN_GRIDDIM * NpRound(RDiv(span, RMul(RInt(MIN_GRIDDIM), step)))

IsVolumetric(symmetryType) == symmetryType = 2 \/ symmetryType = 4

DeriveGrid(self) ==
    LET a == self.attrs
        sym == IntAttr(self, "symmetryType")
    IN  IF RIsZero(a["timeStep"]) THEN Fail(self, "ZeroDivisionError")
        ELSE LET Ntime == GridDim(a["timeSpan"], a["timeStep"])
                 Nfreq == PyInt(RAdd(Rat(Ntime, 2), RInt(1)))
                 s1 == SetInt(SetInt(self, "Ntime", Ntime), "Nfreq", Nfreq)
             IN  IF Ntime = 0 THEN Fail(s1, "ZeroDivisionError")
                 ELSE LET s2 == SetAttr(s1, "fStep",
                                    RDiv(RInt(1), RMul(RInt(Ntime), a["timeStep"])))
                      IN  IF RIsZero(a["spatialStep"]) THEN Fail(s2, "ZeroDivisionError")
                          ELSE LET Nspace == GridDim(a["spatialWidth"], a["spatialStep"])
                                   Nspace2 == IF IsVolumetric(sym)
                                              THEN GridDim(a["spatialHeight"], a["spatialStep"])
                                              ELSE 1
                               IN  SetInt(SetInt(SetInt(s2, "Nspace", Nspace),
                                                 "Nspace2", Nspace2),
                                          "Ngrid", Ntime * Nspace * Nspace2)

(***************************************************************************)
(* Reading a binary blob: an entry of the archive through np.frombuffer,   *)
(* a file of the directory through np.fromfile.                            *)
(***************************************************************************)
Doubles(err, a, unclosed) == [err |-> err, a |-> a, unclosed |-> unclosed]

ReadEntry(fs, src, ending) ==
    LET entry == src.fileBase \o <<ending>>
        entries == fs[src.archive].entries
    IN  IF entry \notin DOMAIN entries THEN Doubles("KeyError", NoArray, {})
        ELSE IF ~FromBufferOk(entries[entry].bytes)
        THEN Doubles("ValueError", NoArray, {ending})
        ELSE Doubles("", FromBuffer(entries[entry].bytes), {ending})

ReadFile(fs, src, ending) ==
    LET name == OnDisk(PathPlus(src.filePrefix, ending))
    IN  IF name \notin DOMAIN fs THEN Doubles("FileNotFoundError", NoArray, {})
        ELSE IF ~Readable(fs[name]) THEN Doubles("PermissionError", NoArray, {})
        ELSE Doubles("", FromFile(fs[name].bytes), {})

ReadDoubles(fs, src, ending) ==
    IF src.isZip THEN ReadEntry(fs, src, ending) ELSE ReadFile(fs, src, ending)

(***************************************************************************)
(* The field decoder (lines 127-143).                                      *)
(***************************************************************************)
FieldCount(Ngrid, Nsims, Nsims2) == 2 * Ngrid * Nsims * Nsims2

FieldShape(sym, Ntime, Nspace, Nspace2, Nsims, Nsims2) ==
    IF IsVolumetric(sym)
    THEN <<Ntime, Nspace, Nspace2, 2 * Nsims, Nsims2>>
    ELSE <<Ntime, Nspace, 2 * Nsims, Nsims2>>

(* the axis of the 2*Nsims interleaved channels *)
ChannelAxis(Ext) == Len(Ext.shape) - 1

(* Ext[..., 0:(2*Nsims):2, :] and Ext[..., 1:(2*Nsims + 1):2, :] *)
SplitXSwapped(Ext, Nsims) == Squeeze(SliceAxis(Ext, ChannelAxis(Ext), 1, 2 * Nsims + 1, 2))

SplitX(Ext, Nsims) == Squeeze(SliceAxis(Ext, ChannelAxis(Ext), 0, 2 * Nsims, 2))

SplitY(Ext, Nsims) == Squeeze(SliceAxis(Ext, ChannelAxis(Ext), 1, 2 * Nsims + 1, 2))

(* the [0:count] of the decoders *)
NoTruncation(a, count) == a

Truncate(a, count) == Prefix(a, count)

DecodeField(self, fs, src) ==
    LET Nsims == IntAttr(self, "Nsims")
        Nsims2 == IntAttr(self, "Nsims2")
        shape == FieldShape(IntAttr(self, "symmetryType"), IntAttr(self, "Ntime"),
                            IntAttr(self, "Nspace"), IntAttr(self, "Nspace2"),
                            Nsims, Nsims2)
        d == ReadDoubles(fs, src, "_Ext.dat")
        s1 == [self EXCEPT !.unclosed = self.unclosed \cup d.unclosed]
        flat == Truncate(d.a, FieldCount(IntAttr(self, "Ngrid"), Nsims, Nsims2))
    IN  IF d.err # "" THEN Fail(s1, d.err)
        ELSE IF ~ReshapeOk(flat, shape) THEN Fail(s1, "ValueError")
        ELSE LET Ext == ReshapeF(flat, shape)
             IN  [s1 EXCEPT !.Ext_x = SplitX(Ext, Nsims), !.Ext_y = SplitY(Ext, Nsims)]

(***************************************************************************)
(* The spectrum decoder (lines 144-151).                                   *)
(***************************************************************************)
SpectrumCount(Nfreq, Nsims, Nsims2) == 3 * Nfreq * Nsims * Nsims2

SpectrumShape(Nfreq, Nsims, Nsims2) == <<Nfreq, 3, Nsims, Nsims2>>

(* np.squeeze(RawSpectrum[:, channel, :, :]).T *)
SpectrumChannelNoT(RawSpectrum, channel) == Squeeze(IndexAxis(RawSpectrum, 2, channel))

SpectrumChannel(RawSpectrum, channel) ==
    Transpose(Squeeze(IndexAxis(RawSpectrum, 2, channel)))

DecodeSpectrum(self, fs, src) ==
    LET Nsims == IntAttr(self, "Nsims")
        Nsims2 == IntAttr(self, "Nsims2")
        Nfreq == IntAttr(self, "Nfreq")
        shape == SpectrumShape(Nfreq, Nsims, Nsims2)
        d == ReadDoubles(fs, src, "_spectrum.dat")
        s1 == [self EXCEPT !.unclosed = self.unclosed \cup d.unclosed]
        flat == Truncate(d.a, SpectrumCount(Nfreq, Nsims, Nsims2))
    IN  IF d.err # "" THEN Fail(s1, d.err)
        ELSE IF ~ReshapeOk(flat, shape) THEN Fail(s1, "ValueError")
        ELSE LET RawSpectrum == ReshapeF(flat, shape)
             IN  [s1 EXCEPT !.spectrumTotal = SpectrumChannel(RawSpectrum, 2),
                            !.spectrum_x = SpectrumChannel(RawSpectrum, 0),
                            !.spectrum_y = SpectrumChannel(RawSpectrum, 1)]

(***************************************************************************)
(* The batch axes (lines 156-261 and 264-369).  An entry of the table      *)
(* names the attribute batchStart is read from ("" for the constant 0) and *)
(* the factor batchDestination is multiplied by (<<>> for none).           *)
(***************************************************************************)
Entry(start, unit) == [known |-> TRUE, start |-> start, unit |-> unit]

NoEntry == [known |-> FALSE, start |-> "", unit |-> <<>>]

BatchTableDefault(i) == Entry("", <<>>)

BatchTable(i) ==
    CASE i = 0 -> Entry("", <<>>)
      [] i = 1 -> Entry("pulseEnergy1", <<>>)
      [] i = 2 -> Entry("pulseEnergy2", <<>>)
      [] i = 3 -> Entry("frequency1", <<"1e12">>)
      [] i = 4 -> Entry("frequency2", <<"1e12">>)
      [] i = 5 -> Entry("frequency1", <<"1e12">>)
      [] i = 6 -> Entry("frequency2", <<"1e12">>)
      [] i = 7 -> Entry("cePhase1", <<"np.pi">>)
      [] i = 8 -> Entry("cePhase2", <<"np.pi">>)
      [] i = 9 -> Entry("delay1", <<"1e-15">>)
      [] i = 10 -> Entry("delay2", <<"1e-15">>)
      [] i = 11 -> Entry("gdd1", <<"1e-30">>)
      [] i = 12 -> Entry("gdd2", <<"1e-30">>)
      [] i = 13 -> Entry("tod1", <<"1e-45">>)
      [] i = 14 -> Entry("tod2", <<"1e-45">>)
      [] i = 15 -> Entry("phaseMaterialThickness1", <<"1e-6">>)
      [] i = 16 -> Entry("phaseMaterialThickness2", <<"1e-6">>)
      [] i = 17 -> Entry("beamwaist1", <<"1e-6">>)
      [] i = 18 -> Entry("beamwaist2", <<"1e-6">>)
      [] i = 19 -> Entry("x01", <<"1e-6">>)
      [] i = 20 -> Entry("x02", <<"1e-6">>)
      [] i = 21 -> Entry("z01", <<"1e-6">>)
      [] i = 22 -> Entry("z02", <<"1e-6">>)
      [] i = 23 -> Entry("propagationAngle1", <<"np.pi/180">>)
      [] i = 24 -> Entry("propagationAngle2", <<"np.pi/180">>)
      [] i = 25 -> Entry("polarizationAngle1", <<"np.pi/180">>)
      [] i = 26 -> Entry("polarizationAngle2", <<"np.pi/180">>)
      [] i = 27 -> Entry("circularity1", <<>>)
      [] i = 28 -> Entry("circularity2", <<>>)
      [] i = 29 -> Entry("crystalTheta", <<"np.pi/180">>)
      [] i = 30 -> Entry("crystalPhi", <<"np.pi/180">>)
      [] i = 31 -> Entry("nonlinearAbsorptionStrength", <<>>)
      [] i = 32 -> Entry("drudeGamma", <<"1e12">>)
      [] i = 33 -> Entry("effectiveMass", <<>>)
      [] i = 34 -> Entry("crystalThickness", <<"1e-6">>)
      [] i = 35 -> Entry("propagationStep", <<"1e-9">>)
      [] i = 36 -> Entry("", <<>>)
      [] i = 37 -> Entry("", <<>>)
      [] OTHER -> NoEntry

BatchTable2(i) ==
    CASE i = 0 -> Entry("", <<>>)
      [] i = 1 -> Entry("pulseEnergy1", <<>>)
      [] i = 2 -> Entry("pulseEnergy2", <<>>)
      [] i = 3 -> Entry("frequency1", <<"1e12">>)
      [] i = 4 -> Entry("frequency2", <<"1e12">>)
      [] i = 5 -> Entry("frequency1", <<"1e12">>)
      [] i = 6 -> Entry("frequency2", <<"1e12">>)
      [] i = 7 -> Entry("cePhase1", <<"np.pi">>)
      [] i = 8 -> Entry("cePhase2", <<"np.pi">>)
      [] i = 9 -> Entry("delay1", <<"1e-15">>)
      [] i = 10 -> Entry("delay2", <<"1e-15">>)
      [] i = 11 -> Entry("gdd1", <<"1e-30">>)
      [] i = 12 -> Entry("gdd2", <<"1e-30">>)
      [] i = 13 -> Entry("tod1", <<"1e-45">>)
      [] i = 14 -> Entry("tod2", <<"1e-45">>)
      [] i = 15 -> Entry("phaseMaterialThickness1", <<"1e-6">>)
      [] i = 16 -> Entry("phaseMaterialThickness2", <<"1e-6">>)
      [] i = 17 -> Entry("beamwaist1", <<"1e-6">>)
      [] i = 18 -> Entry("beamwaist2", <<"1e-6">>)
      [] i = 19 -> Entry("x01", <<"1e-6">>)
      [] i = 20 -> Entry("x02", <<"1e-6">>)
      [] i = 21 -> Entry("z01", <<"1e-6">>)
      [] i = 22 -> Entry("z02", <<"1e-6">>)
      [] i = 23 -> Entry("propagationAngle1", <<"np.pi/180">>)
      [] i = 24 -> Entry("propagationAngle2", <<"np.pi/180">>)
      [] i = 25 -> Entry("polarizationAngle1", <<"np.pi/180">>)
      [] i = 26 -> Entry("polarizationAngle2", <<"np.pi/180">>)
      [] i = 27 -> Entry("circularity1", <<>>)
      [] i = 28 -> Entry("circularity2", <<>>)
      [] i = 29 -> Entry("crystalTheta", <<"np.pi/180">>)
      [] i = 30 -> Entry("crystalPhi", <<"np.pi/180">>)
      [] i = 31 -> Entry("nonlinearAbsorptionStrength", <<>>)
      [] i = 32 -> Entry("drudeGamma", <<"1e12">>)
      [] i = 33 -> Entry("effectiveMass", <<>>)
      [] i = 34 -> Entry("crystalThickness", <<"1e-6">>)
      [] i = 35 -> Entry("propagationStep", <<"1e-9">>)
      [] i = 36 -> Entry("", <<>>)
      [] i = 37 -> Entry("", <<>>)
      [] OTHER -> NoEntry

(* np.linspace(start, stop, num) *)
Linspace(start, stop, num) ==
    [k \in 1..num |->
        IF num = 1 THEN start
        ELSE IF k = num THEN stop
        ELSE LinAdd(start, LinTimes(Rat(k - 1, num - 1), LinSub(stop, start)))]

(* one scan slot: the elif chain, then the linspace *)
BatchAxis(self, e, start, destination, vector, num) ==
    LET s1 == IF ~e.known THEN self
              ELSE IF e.start = "" THEN SetInt(self, start, 0)
              ELSE IF ~HasAttr(self, e.start) THEN Fail(self, "AttributeError")
              ELSE MulAttr(SetAttr(self, start, self.attrs[e.start]), destination, e.unit)
    IN  IF Failed(s1) THEN s1
        ELSE IF ~HasAttr(s1, start) THEN Fail(s1, "AttributeError")
        ELSE IF num < 0 THEN Fail(s1, "ValueError")
        ELSE [s1 EXCEPT ![vector] =
                 ArrayVector(Linspace(AttrValue(s1, start), AttrValue(s1, destination), num))]

BatchAxis1(self) ==
    BatchAxis(self, BatchTable(IntAttr(self, "batchIndex")),
              "batchStart", "batchDestination", "batchVector", IntAttr(self, "Nsims"))

BatchAxis2(self) ==
    BatchAxis(self, BatchTable2(IntAttr(self, "batchIndex2")),
              "batchStart2", "batchDestination2", "batchVector2", IntAttr(self, "Nsims2"))

(***************************************************************************)
(* The sampling axes (lines 371-375).  frequencyVectorSpectrum is a slice  *)
(* of frequencyVector and shares its memory: the in-place change of its    *)
(* last entry is a change of frequencyVector.                              *)
(***************************************************************************)
(* np.fft.fftfreq(n, d) *)
FftFreq(n, d) ==
    [k \in 1..n |->
        IF k - 1 < (n - 1) \div 2 + 1
        THEN RDiv(RInt(k - 1), RMul(RInt(n), d))
        ELSE RDiv(RInt(k - 1 - n), RMul(RInt(n), d))]

SamplingAxes(self) ==
    LET Ntime == IntAttr(self, "Ntime")
        Nfreq == IntAttr(self, "Nfreq")
        Nspace == IntAttr(self, "Nspace")
        dt == self.attrs["timeStep"]
        dx == self.attrs["spatialStep"]
        freq == FftFreq(Ntime, dt)
        len == Min(Nfreq, Ntime)
    IN  IF len = 0 THEN Fail(self, "IndexError")
        ELSE [self EXCEPT
                 !.timeVector = [k \in 1..Ntime |-> RMul(dt, RInt(k - 1))],
                 !.frequencyVector = [freq EXCEPT ![len] = RMul(RInt(-1), freq[len])],
                 !.frequencyVectorSpectrum = [len |-> len, set |-> TRUE],
                 !.spaceVector =
                     [k \in 1..Nspace |->
                         RAdd(RMul(dx, RSub(RInt(k - 1), Rat(Nspace, 2))),
                              RMul(Rat(1, 4), dx))]]

(***************************************************************************)
(* lightwaveExplorerResult.__init__ and load.                              *)
(***************************************************************************)
lightwaveExplorerResult(fs, filePath, loadFieldArray) ==
    LET src == OpenSettings(fs, filePath)
        s0 == [EmptySelf EXCEPT !.unclosed = src.unclosed]
        Field(s) == IF loadFieldArray THEN DecodeField(s, fs, src) ELSE s
        Spectrum(s) == DecodeSpectrum(s, fs, src)
        Parse(s) == ParseParameters(s, src.lines)
    IN  IF src.err # "" THEN Fail(s0, src.err)
        ELSE Then(Then(Then(Then(Then(Then(Then(Parse(s0),
                 CastIntegers), DeriveGrid), Field), Spectrum),
                 BatchAxis1), BatchAxis2), SamplingAxes)

load(fs, filePath, loadFieldArray) == lightwaveExplorerResult(fs, filePath, loadFieldArray)

(* an element of an array: idx counts from 0 *)
FlatOffset(a, idx) == a.off + SumSeq([i \in 1..Len(idx) |-> idx[i] * a.strides[i]])

(***************************************************************************)
(* loadSplit (lines 785-837).                                              *)
(***************************************************************************)
(* baseStructure.field[..., i] = value *)
Store(self, field, i, value) ==
    IF SetSlotOk(self[field], i, value)
    THEN [self EXCEPT ![field] = SetSlot(self[field], i, value)]
    ELSE Fail(self, "ValueError")

(* lines 796-819: the arrays of the first shard become slot 0 of new arrays *)
Allocate(self, Ntotal) ==
    LET first == self
        stackAxis == Len(first.Ext_x.shape)
        kept == IF stackAxis = 2 THEN 2 ELSE 3
    IN  IF stackAxis < kept \/ Len(first.spectrum_x.shape) < 1
        THEN Fail(self, "IndexError")
        ELSE LET fieldShape == SubSeq(first.Ext_x.shape, 1, kept) \o <<Ntotal>>
                 spectrumShape == <<Ntotal, first.spectrum_x.shape[1]>>
                 x(s) == Store([s EXCEPT !.Ext_x = Zeros(fieldShape, kept + 1)],
                               "Ext_x", 0, first.Ext_x)
                 y(s) == Store([s EXCEPT !.Ext_y = Zeros(fieldShape, kept + 1)],
                               "Ext_y", 0, first.Ext_y)
                 sx(s) == Store([s EXCEPT !.spectrum_x = Zeros(spectrumShape, 1)],
                                "spectrum_x", 0, first.spectrum_x)
                 sy(s) == Store([s EXCEPT !.spectrum_y = Zeros(spectrumShape, 1)],
                                "spectrum_y", 0, first.spectrum_y)
                 st(s) == Store([s EXCEPT !.spectrumTotal = Zeros(spectrumShape, 1)],
                                "spectrumTotal", 0, first.spectrumTotal)
             IN  Then(Then(Then(Then(x(self), y), sx), sy), st)

(* lines 821-822 *)
StartBatch(self, batchType) ==
    IF ~HasAttr(self, batchType) THEN Fail(self, "AttributeError")
    ELSE [SetAttr(self, "batchStart", self.attrs[batchType])
             EXCEPT !.batchVector = ScalarVector(AttrValue(self, batchType)),
                    !.units = Put(self.units, "batchStart", UnitOf(self, batchType))]

(* line 835: np.append(baseStructure.batchVector, getattr(baseStructure, batchType)) *)
AppendBatch(self, batchType) ==
    [self EXCEPT !.batchVector =
        ArrayVector(self.batchVector.v \o <<AttrValue(self, batchType)>>)]

(* lines 824-835: shard i (from 1) into slot i *)
RECURSIVE FillFrom(_, _, _, _, _)
FillFrom(fs, listOfFileNames, batchType, i, baseStructure) ==
    IF Failed(baseStructure) \/ i >= Len(listOfFileNames) THEN baseStructure
    ELSE LET newStructure == load(fs, listOfFileNames[i + 1], TRUE)
             x(s) == Store(s, "Ext_x", i, newStructure.Ext_x)
             y(s) == Store(s, "Ext_y", i, newStructure.Ext_y)
             sx(s) == Store(s, "spectrum_x", i, newStructure.spectrum_x)
             sy(s) == Store(s, "spectrum_y", i, newStructure.spectrum_y)
             st(s) == Store(s, "spectrumTotal", i, newStructure.spectrumTotal)
             b(s) == AppendBatch(s, batchType)
             opened == [baseStructure EXCEPT
                           !.unclosed = baseStructure.unclosed \cup newStructure.unclosed]
         IN  IF Failed(newStructure) THEN Fail(opened, newStructure.err)
             ELSE FillFrom(fs, listOfFileNames, batchType, i + 1,
                           Then(Then(Then(Then(Then(x(opened), y), sx), sy), st), b))

loadSplit(fs, baseName, Ntotal, batchType) ==
    LET listOfFileNames ==
            [i \in 1..Ntotal |-> PathPlus(Path(baseName.dir, baseName.name \o Format04d(i - 1)),
                                          ".txt")]
        allocate(s) == Allocate(s, Ntotal)
        start(s) == StartBatch(s, batchType)
        fill(s) == FillFrom(fs, listOfFileNames, batchType, 1, s)
    IN  IF Ntotal <= 0 THEN Fail(EmptySelf, "IndexError")
        ELSE Then(Then(Then(load(fs, listOfFileNames[1], TRUE), allocate), start), fill)

(***************************************************************************)
(* fuseBinaries (lines 839-872).  A call works on the directory and on     *)
(* what has been printed.                                                  *)
(***************************************************************************)
Printed(by, what, dir, names) == [by |-> by, what |-> what, dir |-> dir, names |-> names]

(* os.listdir() filtered by startswith and endswith *)
Listing(fs, baseName, ending) ==
    {filename \in DOMAIN fs : StartsWith(filename, baseName) /\ EndsWith(filename, ending)}

(* the read loop of lines 858-863: pieces of at most ChunkBytes *)
RECURSIVE CopyChunks(_, _)
CopyChunks(output, current) ==
    LET piece == RopeTake(current, ChunkBytes)
    IN  IF piece = <<>> THEN output
        ELSE CopyChunks(RopeConcat(output, piece), RopeDrop(current, ChunkBytes))

RECURSIVE CopyFiles(_, _, _)
CopyFiles(fs, files, output) ==
    IF files = <<>> THEN output
    ELSE CopyFiles(fs, Tail(files), CopyChunks(output, fs[Head(files)].bytes))

(* the files that the loop copies before open() raises, or all of them *)
Opened(fs, files) ==
    LET closed == {i \in 1..Len(files) : ~Readable(fs[files[i]])}
    IN  IF closed = {} THEN files
        ELSE SubSeq(files, 1, (CHOOSE i \in closed : \A j \in closed : i <= j) - 1)

(* The output is opened for writing before the first source is read and is *)
(* not closed when open() of a source raises (line 867 is not reached); it *)
(* holds what was written to it when its buffer is flushed at the latest   *)
(* as the file object is collected.                                        *)
fuseFile(w, baseName, ending) ==
    LET output_name == baseName \o <<ending>>
        removed == IF output_name \in DOMAIN w.fs THEN Remove(w.fs, output_name) ELSE w.fs
        files == Sorted(Listing(removed, baseName, ending))
        copied == Opened(removed, files)
    IN  [fs |-> Put(removed, output_name, DatFile(CopyFiles(removed, copied, <<>>))),
         stdout |-> w.stdout
                    \o <<Printed("fuseBinaries", "Fusing", "", <<output_name>>),
                         Printed("fuseBinaries", "files", "", files)>>
                    \o [i \in 1..Len(copied) |->
                           Printed("fuseBinaries", "file", "", <<copied[i]>>)],
         err |-> IF copied = files THEN "" ELSE "PermissionError"]

fuseBinaries(w, outputTextFile) ==
    LET base == SplitextName(Basename(outputTextFile))
        Ext == fuseFile(w, base, "_Ext.dat")
    IN  IF Ext.err # "" THEN Ext ELSE fuseFile(Ext, base, "_spectrum.dat")

(***************************************************************************)
(* fuseZips (lines 874-903).  Writing an entry to an archive opened in     *)
(* append mode adds it after the entries the archive has; an entry of the  *)
(* same name is then the one a later read finds.                           *)
(***************************************************************************)
Accumulated(err, Ext, spectrum, stdout) ==
    [err |-> err, Ext |-> Ext, spectrum |-> spectrum, stdout |-> stdout]

(* the loop of lines 890-897 *)
RECURSIVE ReadSources(_, _, _)
ReadSources(fs, files, acc) ==
    IF files = <<>> \/ acc.err # "" THEN acc
    ELSE LET sourceFile == Head(files)
             currentBase == SplitextName(sourceFile)
             out == Append(acc.stdout, Printed("fuseZips", "currentBase", "", <<currentBase>>))
             entries == fs[sourceFile].entries
             spectrumName == currentBase \o <<"_spectrum.dat">>
             ExtName == currentBase \o <<"_Ext.dat">>
         IN  IF ~Readable(fs[sourceFile])
             THEN Accumulated("PermissionError", acc.Ext, acc.spectrum, out)
             ELSE IF fs[sourceFile].kind # "zip"
             THEN Accumulated("BadZipFile", acc.Ext, acc.spectrum, out)
             ELSE IF spectrumName \notin DOMAIN entries
             THEN Accumulated("KeyError", acc.Ext, acc.spectrum, out)
             ELSE LET spectrum == RopeConcat(acc.spectrum, entries[spectrumName].bytes)
                  IN  IF ExtName \notin DOMAIN entries
                      THEN Accumulated("KeyError", acc.Ext, spectrum, out)
                      ELSE ReadSources(fs, Tail(files),
                               Accumulated("", RopeConcat(acc.Ext, entries[ExtName].bytes),
                                           spectrum, out))

fuseZips(w, outputFile) ==
    LET ending == ".zip"
        baseName == SplitextName(Basename(outputFile))
        destination == PathPlus(SplitextPath(outputFile), ending)
        files == Sorted({filename \in Listing(w.fs, baseName, ending) :
                            Path("", filename) # destination})
        out == w.stdout \o <<Printed("fuseZips", "files", "", files),
                             Printed("fuseZips", "destination", destination.dir,
                                     <<destination.name>>)>>
        existing == IF OnDisk(destination) \in DOMAIN w.fs
                    THEN w.fs[OnDisk(destination)].entries
                    ELSE <<>>
        read == ReadSources(w.fs, files, Accumulated("", <<>>, <<>>, out))
        written == Put(Put(existing, baseName \o <<"_spectrum.dat">>, DatFile(read.spectrum)),
                       baseName \o <<"_Ext.dat">>, DatFile(read.Ext))
    IN  IF read.err # ""
        THEN [fs |-> Put(w.fs, OnDisk(destination), ZipFile(existing)),
              stdout |-> read.stdout, err |-> read.err, temp |-> {"Ext", "spectrum"}]
        ELSE [fs |-> Put(w.fs, OnDisk(destination), ZipFile(written)),
              stdout |-> read.stdout, err |-> "", temp |-> {}]


(***************************************************************************)
(* What a simulation run leaves in the working directory.  A run is given  *)
(* by the manifest values that differ from the defaults (the i-th          *)
(* parameter defaults to 100 + i, so that no two parameters agree), and    *)
(* its two blobs by their lengths in bytes.                                *)
(***************************************************************************)
ParameterIndex(x) == CHOOSE i \in 1..Len(parameterNames) : parameterNames[i] = x

ManifestLines(over) ==
    [i \in 1..Len(parameterNames) |->
        <<WordTok(parameterNames[i]),
          NumTok(IF parameterNames[i] \in DOMAIN over
                 THEN over[parameterNames[i]]
                 ELSE RInt(100 + i))>>]

(* the grid the simulation computes for a manifest, and the doubles it writes *)
WrittenGrid(over) ==
    LET Ntime == GridDim(over["timeSpan"], over["timeStep"])
        Nspace == GridDim(over["spatialWidth"], over["spatialStep"])
        Nspace2 == IF IsVolumetric(PyInt(over["symmetryType"]))
                   THEN GridDim(over["spatialHeight"], over["spatialStep"])
                   ELSE 1
    IN  [Ntime |-> Ntime, Nfreq |-> Ntime \div 2 + 1, Nspace |-> Nspace,
         Nspace2 |-> Nspace2, Ngrid |-> Ntime * Nspace * Nspace2]

WrittenFieldDoubles(over) ==
    2 * WrittenGrid(over).Ngrid * PyInt(over["Nsims"]) * PyInt(over["Nsims2"])

WrittenSpectrumDoubles(over) ==
    3 * WrittenGrid(over).Nfreq * PyInt(over["Nsims"]) * PyInt(over["Nsims2"])

(* the files of one run: the flat files and the archive holding the same *)
FlatFiles(base, lines, ext, spectrum) ==
    (base \o <<".txt">> :> TxtFile(lines))
    @@ (base \o <<"_Ext.dat">> :> DatFile(ext))
    @@ (base \o <<"_spectrum.dat">> :> DatFile(spectrum))

RunFiles(base, lines, ext, spectrum) ==
    FlatFiles(base, lines, ext, spectrum)
    @@ (base \o <<".zip">> :> ZipFile(FlatFiles(base, lines, ext, spectrum)))

(* a run written by the simulation, its blobs longer or shorter by some bytes *)
WrittenRun(base, tag, over, extDelta, spectrumDelta) ==
    RunFiles(base, ManifestLines(over),
             Blob(<<"Ext", tag>>, ItemSize * WrittenFieldDoubles(over) + extDelta),
             Blob(<<"spectrum", tag>>, ItemSize * WrittenSpectrumDoubles(over) + spectrumDelta))

(* the smallest grid: 8 samples in time and in each transverse direction *)
SmallGrid ==
    ("timeSpan" :> RInt(8)) @@ ("timeStep" :> RInt(1))
    @@ ("spatialWidth" :> RInt(8)) @@ ("spatialHeight" :> RInt(8))
    @@ ("spatialStep" :> RInt(1))

Batch(symmetryType, Nsims, Nsims2) ==
    ("symmetryType" :> RInt(symmetryType)) @@ ("Nsims" :> RInt(Nsims))
    @@ ("Nsims2" :> RInt(Nsims2))

Scan(batchIndex, batchDestination, batchIndex2, batchDestination2) ==
    ("batchIndex" :> RInt(batchIndex)) @@ ("batchDestination" :> batchDestination)
    @@ ("batchIndex2" :> RInt(batchIndex2)) @@ ("batchDestination2" :> batchDestination2)

NoScan == Scan(0, RInt(0), 0, RInt(0))

RunName == <<"R">>

(***************************************************************************)
(* The state: the working directory (fs), the values the callers pass      *)
(* (given), the calls made so far in their order (calls), the result of    *)
(* each load and of loadSplit (res, resz, split), what the fusing routines *)
(* printed (stdout), the exception each of them ended with (raised) and    *)
(* the temporary files they left behind (temp).                            *)
(***************************************************************************)
VARIABLES fs, given, calls, res, resz, split, stdout, raised, temp

vars == <<fs, given, calls, res, resz, split, stdout, raised, temp>>

done == {calls[i] : i \in DOMAIN calls}

(* load("R.txt", loadFieldArray) *)
LoadFile ==
    /\ "load" \notin done
    /\ res' = load(fs, Path("", RunName \o <<".txt">>), given.loadFieldArray)
    /\ calls' = Append(calls, "load")
    /\ UNCHANGED <<fs, given, resz, split, stdout, raised, temp>>

(* load("R.zip", loadFieldArray) *)
LoadZip ==
    /\ "loadZip" \notin done
    /\ resz' = load(fs, Path("", RunName \o <<".zip">>), given.loadFieldArray)
    /\ calls' = Append(calls, "loadZip")
    /\ UNCHANGED <<fs, given, res, split, stdout, raised, temp>>

(* loadSplit("R", Ntotal, batchType) *)
LoadSplit ==
    /\ "loadSplit" \notin done
    /\ split' = loadSplit(fs, Path(given.dir, RunName), given.Ntotal, given.batchType)
    /\ calls' = Append(calls, "loadSplit")
    /\ UNCHANGED <<fs, given, res, resz, stdout, raised, temp>>

(* fuseBinaries("R.txt") *)
FuseBinaries ==
    /\ "fuseBinaries" \notin done
    /\ LET w == fuseBinaries([fs |-> fs, stdout |-> stdout],
                             Path(given.dir, RunName \o <<".txt">>))
       IN  /\ fs' = w.fs
           /\ stdout' = w.stdout
           /\ raised' = [raised EXCEPT !["fuseBinaries"] = w.err]
    /\ calls' = Append(calls, "fuseBinaries")
    /\ UNCHANGED <<given, res, resz, split, temp>>

(* fuseZips("R.zip") *)
FuseZips ==
    /\ "fuseZips" \notin done
    /\ LET w == fuseZips([fs |-> fs, stdout |-> stdout],
                         Path(given.dir, RunName \o <<".zip">>))
       IN  /\ fs' = w.fs
           /\ stdout' = w.stdout
           /\ raised' = [raised EXCEPT !["fuseZips"] = w.err]
           /\ temp' = temp \cup w.temp
    /\ calls' = Append(calls, "fuseZips")
    /\ UNCHANGED <<given, res, resz, split>>

NextLoad == LoadFile \/ LoadZip

NextFuse == FuseBinaries \/ FuseZips \/ LoadFile \/ LoadZip

NextSplit == LoadSplit

NoGiven ==
    [over |-> <<>>, fault |-> "exact", loadFieldArray |-> TRUE, dir |-> "",
     shards |-> {}, Ntotal |-> 0, batchType |-> ""]

InitCalls ==
    /\ calls = <<>>
    /\ res = EmptySelf
    /\ resz = EmptySelf
    /\ split = EmptySelf
    /\ stdout = <<>>
    /\ raised = [c \in {"fuseBinaries", "fuseZips"} |-> ""]
    /\ temp = {}

(***************************************************************************)
(* SpecLoad: one run on the smallest grid, every symmetry type and batch   *)
(* multiplicity, its blobs exact, one double short, one double long, or    *)
(* followed by a few bytes that are no whole double.                       *)
(***************************************************************************)
SymmetryTypes == 0..4

Faults ==
    {"exact", "ExtShort", "ExtLong", "ExtBytes",
     "spectrumShort", "spectrumLong", "spectrumBytes"}

ExtDelta(fault) ==
    CASE fault = "ExtShort" -> -ItemSize
      [] fault = "ExtLong" -> ItemSize
      [] fault = "ExtBytes" -> 3
      [] OTHER -> 0

SpectrumDelta(fault) ==
    CASE fault = "spectrumShort" -> -ItemSize
      [] fault = "spectrumLong" -> ItemSize
      [] fault = "spectrumBytes" -> 3
      [] OTHER -> 0

InitLoad ==
    /\ \E sym \in SymmetryTypes, Nsims \in 1..MaxNsims, Nsims2 \in 1..MaxNsims2,
          fault \in Faults, loadFieldArray \in BOOLEAN :
          LET over == SmallGrid @@ Batch(sym, Nsims, Nsims2) @@ NoScan
          IN  /\ fs = WrittenRun(RunName, 0, over, ExtDelta(fault), SpectrumDelta(fault))
              /\ given = [NoGiven EXCEPT !.over = over, !.fault = fault,
                                          !.loadFieldArray = loadFieldArray]
    /\ InitCalls

SpecLoad == InitLoad /\ [][NextLoad]_vars


(***************************************************************************)
(* SpecGrid: one run with exact blobs, its spans and steps varied.         *)
(***************************************************************************)
TimeSpans == {RInt(3), RInt(4), RInt(8), RInt(12), RInt(20), RInt(100)}

TimeSteps == {RInt(1), Rat(1, 2)}

SpatialWidths == {RInt(8), RInt(12), RInt(20)}

SpatialHeights == {RInt(8), RInt(12)}

InitGrid ==
    /\ \E sym \in SymmetryTypes, timeSpan \in TimeSpans, timeStep \in TimeSteps,
          spatialWidth \in SpatialWidths, spatialHeight \in SpatialHeights :
          LET over == ("timeSpan" :> timeSpan) @@ ("timeStep" :> timeStep)
                      @@ ("spatialWidth" :> spatialWidth)
                      @@ ("spatialHeight" :> spatialHeight)
                      @@ ("spatialStep" :> RInt(1)) @@ Batch(sym, 1, 1) @@ NoScan
          IN  /\ fs = WrittenRun(RunName, 0, over, 0, 0)
              /\ given = [NoGiven EXCEPT !.over = over]
    /\ InitCalls

SpecGrid == InitGrid /\ [][NextLoad]_vars

(***************************************************************************)
(* SpecBatch: one run on the smallest grid with exact blobs, its scan      *)
(* slots varied: one slot takes every index from -1 to 38 while the other  *)
(* takes one of a few, with every multiplicity up to MaxScan.              *)
(***************************************************************************)
ScanIndices == (0 - 1)..38

FewIndices == {0, 9}

ScanDestinations == {<<RInt(10), Rat(0 - 3, 2)>>, <<Rat(0 - 3, 2), RInt(200)>>}

InitBatch ==
    /\ \E i \in ScanIndices, j \in FewIndices, swap \in BOOLEAN,
          Nsims \in 1..MaxScan, Nsims2 \in 1..MaxScan, d \in ScanDestinations :
          LET over == SmallGrid @@ Batch(0, Nsims, Nsims2)
                      @@ (IF swap THEN Scan(j, d[1], i, d[2]) ELSE Scan(i, d[1], j, d[2]))
          IN  /\ fs = WrittenRun(RunName, 0, over, 0, 0)
              /\ given = [NoGiven EXCEPT !.over = over, !.loadFieldArray = FALSE]
    /\ InitCalls

SpecBatch == InitBatch /\ [][NextLoad]_vars

(***************************************************************************)
(* SpecTable: one run on the smallest grid with exact blobs and two scan   *)
(* points in each slot, the two slots taking every pair of the indices     *)
(* that name a parameter.  The parameters of the manifest have the default *)
(* values, of which no two agree.                                          *)
(***************************************************************************)
OriginIndices == 1..35

InitTable ==
    /\ \E i \in OriginIndices, j \in OriginIndices :
          LET over == SmallGrid @@ Batch(0, 2, 2) @@ Scan(i, RInt(10), j, RInt(10))
          IN  /\ fs = WrittenRun(RunName, 0, over, 0, 0)
              /\ given = [NoGiven EXCEPT !.over = over, !.loadFieldArray = FALSE]
    /\ InitCalls

SpecTable == InitTable /\ [][NextLoad]_vars

(***************************************************************************)
(* SpecManifest: one run on the smallest grid with exact blobs, its        *)
(* manifest of fewer lines than the schema has names, of as many, or of    *)
(* more; every line with one number or with two, the value being the last; *)
(* one line, or none, without a number or with a number that float() does  *)
(* not read; the integer parameters written as whole numbers or with a     *)
(* fractional part.                                                        *)
(***************************************************************************)
ManifestLengths == {56, 57, 58, 59, 60, 61}

LineFaults == {"", "word", "grouped"}

FaultyLines == {1, 30, 57, 59, 60}

Fractional ==
    ("symmetryType" :> Rat(5, 2)) @@ ("Nsims" :> Rat(3, 2)) @@ ("Nsims2" :> Rat(7, 3))
    @@ ("batchIndex" :> Rat(0 - 1, 2)) @@ ("batchDestination" :> RInt(0))
    @@ ("batchIndex2" :> Rat(19, 2)) @@ ("batchDestination2" :> Rat(1, 4))

(* the manifest of n lines: the lines of the schema, then lines of no name *)
ManifestText(over, n, leading, fault, at) ==
    [i \in 1..n |->
        LET name == IF i <= Len(parameterNames) THEN parameterNames[i] ELSE ""
            value == IF name \in DOMAIN over THEN over[name] ELSE RInt(100 + i)
            first == IF leading THEN <<NumTok(RInt(7))>> ELSE <<>>
        IN  IF i = at /\ fault = "word" THEN <<WordTok(name)>>
            ELSE IF i = at /\ fault = "grouped"
                 THEN first \o <<WordTok(name), GroupedTok(value)>>
            ELSE first \o <<WordTok(name), NumTok(value)>>]

InitManifest ==
    /\ \E n \in ManifestLengths, leading \in BOOLEAN, fault \in LineFaults,
          at \in FaultyLines, fractional \in BOOLEAN, loadFieldArray \in BOOLEAN :
          LET over == SmallGrid
                      @@ (IF fractional THEN Fractional ELSE Batch(0, 1, 1) @@ NoScan)
          IN  /\ fault = "" => at = 1
              /\ fs = RunFiles(RunName, ManifestText(over, n, leading, fault, at),
                               Blob(<<"Ext", 0>>, ItemSize * WrittenFieldDoubles(over)),
                               Blob(<<"spectrum", 0>>, ItemSize * WrittenSpectrumDoubles(over)))
              /\ given = [NoGiven EXCEPT !.over = over, !.loadFieldArray = loadFieldArray]
    /\ InitCalls

SpecManifest == InitManifest /\ [][NextLoad]_vars

(***************************************************************************)
(* SpecFuse: a working directory with the shards of a split run, as flat   *)
(* files and as archives, the ordinals of the shards drawn from a pool     *)
(* that has ordinals of four and of five digits; the manifest R.txt of the *)
(* whole run and the archive R.zip holding it; fused files of an earlier   *)
(* fusion or none; the output named with or without "./".                  *)
(***************************************************************************)
OrdinalPool == {0, 1, 1000, 10000}

Stale == 0 - 1

ShardBase(i) == RunName \o Format04d(i)

(* the manifest of the whole run, and with it the fused blobs of an earlier run *)
Destination(over, stale) ==
    LET manifest == RunName \o <<".txt">> :> TxtFile(ManifestLines(over))
        earlier == (RunName \o <<"_Ext.dat">> :>
                       DatFile(Blob(<<"Ext", Stale>>, ItemSize * 2 * WrittenGrid(over).Ngrid)))
                   @@ (RunName \o <<"_spectrum.dat">> :>
                       DatFile(Blob(<<"spectrum", Stale>>, ItemSize * 3 * WrittenGrid(over).Nfreq)))
        flat == IF stale THEN manifest @@ earlier ELSE manifest
    IN  flat @@ (RunName \o <<".zip">> :> ZipFile(flat))

RECURSIVE ShardFiles(_, _)
ShardFiles(ordinals, over) ==
    IF ordinals = {} THEN <<>>
    ELSE LET i == CHOOSE x \in ordinals : TRUE
         IN  WrittenRun(ShardBase(i), i, over, 0, 0) @@ ShardFiles(ordinals \ {i}, over)

InitFuse ==
    /\ \E shards \in SUBSET OrdinalPool, sym \in {0, 2}, stale \in BOOLEAN, dir \in {"", "./"} :
          LET N == Cardinality(shards)
              over == SmallGrid @@ Batch(sym, N, 1) @@ NoScan
              one == SmallGrid @@ Batch(sym, 1, 1) @@ NoScan
          IN  /\ N \in 1..MaxShards
              /\ fs = Destination(over, stale) @@ ShardFiles(shards, one)
              /\ given = [NoGiven EXCEPT !.over = over, !.dir = dir, !.shards = shards]
    /\ InitCalls

SpecFuse == InitFuse /\ [][NextFuse]_vars

(***************************************************************************)
(* SpecFault: the directory of SpecFuse on the flat grid, with one shard   *)
(* that cannot be fused: its flat files may not be read, its archive may   *)
(* not be read, or its archive lacks the field entry.  The archive R.zip   *)
(* of the whole run is there or not.                                       *)
(***************************************************************************)
FaultPool == {0, 1, 2}

ShardFaults == {"files", "archive", "entry"}

Faulty(files, i, fault) ==
    LET Ext == ShardBase(i) \o <<"_Ext.dat">>
        spectrum == ShardBase(i) \o <<"_spectrum.dat">>
        archive == ShardBase(i) \o <<".zip">>
    IN  CASE fault = "files" ->
               [files EXCEPT ![Ext] = Denied(@), ![spectrum] = Denied(@)]
          [] fault = "archive" -> [files EXCEPT ![archive] = Denied(@)]
          [] OTHER ->
               [files EXCEPT ![archive] = ZipFile(Remove(files[archive].entries, Ext))]

InitFault ==
    /\ \E shards \in SUBSET FaultPool, i \in FaultPool, fault \in ShardFaults,
          stale \in BOOLEAN, whole \in BOOLEAN, dir \in {"", "./"} :
          LET N == Cardinality(shards)
              over == SmallGrid @@ Batch(0, N, 1) @@ NoScan
              one == SmallGrid @@ Batch(0, 1, 1) @@ NoScan
              run == Destination(over, stale)
          IN  /\ N \in 1..MaxShards
              /\ i \in shards
              /\ fs = (IF whole THEN run ELSE Remove(run, RunName \o <<".zip">>))
                      @@ Faulty(ShardFiles(shards, one), i, fault)
              /\ given = [NoGiven EXCEPT !.over = over, !.dir = dir, !.shards = shards,
                                         !.fault = fault]
    /\ InitCalls

SpecFault == InitFault /\ [][NextFuse]_vars

(***************************************************************************)
(* SpecSplit: the shards 0000, 0001, ... of a split run, each with its own *)
(* values of the scanned parameters, the last one possibly on a wider      *)
(* grid or of another symmetry type (a flat shard after volumetric ones or *)
(* a volumetric one after flat ones); loadSplit is asked for as many       *)
(* shards as there are or one more.                                        *)
(***************************************************************************)
BatchTypes == {"frequency1", "delay2", "frequency3"}

ShardManifest(i, sym, width) ==
    ("frequency1" :> RInt(500 + i)) @@ ("delay2" :> Rat(7 + 2 * i, 2))
    @@ ("spatialWidth" :> RInt(width)) @@ SmallGrid @@ Batch(sym, 1, 1) @@ NoScan

(* N shards of symmetry type sym and width 8, but for the last, which is of *)
(* symmetry type lastSym and of width 16 if wide                           *)
RECURSIVE SplitFiles(_, _, _, _)
SplitFiles(N, sym, wide, lastSym) ==
    IF N = 0 THEN <<>>
    ELSE WrittenRun(ShardBase(N - 1), N - 1,
                    ShardManifest(N - 1, lastSym, IF wide THEN 16 ELSE 8), 0, 0)
         @@ SplitFiles(N - 1, sym, FALSE, sym)

InitSplit ==
    /\ \E N \in 1..MaxShards, sym \in {0, 2}, wide \in BOOLEAN, lastSym \in {0, 2},
          more \in 0..1, batchType \in BatchTypes :
          /\ fs = SplitFiles(N, sym, wide, lastSym)
          /\ given = [NoGiven EXCEPT !.over = ShardManifest(0, IF N = 1 THEN lastSym ELSE sym,
                                                             IF N = 1 /\ wide THEN 16 ELSE 8),
                                     !.shards = 0..(N - 1),
                                     !.Ntotal = N + more, !.batchType = batchType]
    /\ InitCalls

SpecSplit == InitSplit /\ [][NextSplit]_vars

(***************************************************************************)
(* Reading the results.                                                    *)
(***************************************************************************)
(* the index of the k-th element (from 0) of a shape, first index fastest *)
UnflattenBy(shape, strides, k) ==
    [i \in 1..Len(shape) |-> (k \div strides[i]) % shape[i]]

Indices(shape) ==
    LET strides == FStrides(shape)
    IN  {UnflattenBy(shape, strides, k) : k \in 0..(Product(shape) - 1)}

SqueezedShape(shape) ==
    [i \in 1..Len(KeepAxes(shape, 1)) |-> shape[KeepAxes(shape, 1)[i]]]

Pick(idx, keep) == [i \in 1..Len(keep) |-> idx[keep[i]]]

(* a double of np.zeros, and a[idx] *)
ZeroDouble == <<Piece(<<"zero", 0>>, 0, ItemSize)>>

At(a, idx) ==
    IF a.kind = "stack"
    THEN LET slot == a.slots[idx[a.axis] + 1]
         IN  IF slot.kind = "none" THEN ZeroDouble
             ELSE ElemAt(slot.buf, FlatOffset(slot, DropAt(idx, a.axis)))
    ELSE ElemAt(a.buf, FlatOffset(a, idx))

ArraysEqual(a, b) ==
    /\ a.kind = b.kind
    /\ a.shape = b.shape
    /\ \A idx \in Indices(a.shape) : At(a, idx) = At(b, idx)

(* the k-th double (from 0) of a blob the simulation wrote *)
BlobDouble(id, k) == <<Piece(id, ItemSize * k, ItemSize)>>

RLeq(a, b) == a[1] * b[2] <= b[1] * a[2]

RAbs(a) == <<Abs(a[1]), a[2]>>

(* the calls that returned, with whether they were asked for the field *)
Loads ==
    (IF "load" \in done THEN {[r |-> res, field |-> given.loadFieldArray, zip |-> FALSE]}
     ELSE {})
    \cup
    (IF "loadZip" \in done THEN {[r |-> resz, field |-> given.loadFieldArray, zip |-> TRUE]}
     ELSE {})

GivenInt(n) == PyInt(given.over[n])

(* what the simulation wrote: its grid and its batch multiplicities *)
Written ==
    LET g == WrittenGrid(given.over)
    IN  [Ntime |-> g.Ntime, Nfreq |-> g.Nfreq, Nspace |-> g.Nspace,
         Nspace2 |-> g.Nspace2, Ngrid |-> g.Ngrid,
         volumetric |-> IsVolumetric(GivenInt("symmetryType")),
         Nsims |-> GivenInt("Nsims"), Nsims2 |-> GivenInt("Nsims2")]

(***************************************************************************)
(* C4.  The field decoder: Ext_x and Ext_y have the shape (Ntime, Nspace,  *)
(* [Nspace2,] Nsims, Nsims2) without its axes of extent 1; the x element   *)
(* at (t, s, s2, b, b2) is the double of the blob at offset                *)
(* t + Ntime*(s + Nspace*(s2 + Nspace2*(2b + 2*Nsims*b2))), the y element  *)
(* the one at the same offset with 2b+1 for 2b; and the two arrays         *)
(* together hold every double of the required count exactly once.          *)
(***************************************************************************)
FieldFullShape(w) ==
    IF w.volumetric
    THEN <<w.Ntime, w.Nspace, w.Nspace2, w.Nsims, w.Nsims2>>
    ELSE <<w.Ntime, w.Nspace, w.Nsims, w.Nsims2>>

FieldOffset(w, idx, parity) ==
    LET s2 == IF w.volumetric THEN idx[3] ELSE 0
        b == IF w.volumetric THEN idx[4] ELSE idx[3]
        b2 == IF w.volumetric THEN idx[5] ELSE idx[4]
    IN  idx[1] + w.Ntime * (idx[2] + w.Nspace * (s2 + w.Nspace2 *
            ((2 * b + parity) + 2 * w.Nsims * b2)))

FieldDecodedAsClaimed(r, w) ==
    LET full == FieldFullShape(w)
        keep == KeepAxes(full, 1)
        all == Indices(full)
        need == 2 * w.Ngrid * w.Nsims * w.Nsims2
    IN  /\ r.Ext_x.shape = SqueezedShape(full)
        /\ r.Ext_y.shape = SqueezedShape(full)
        /\ \A idx \in all :
              /\ At(r.Ext_x, Pick(idx, keep)) = BlobDouble(<<"Ext", 0>>, FieldOffset(w, idx, 0))
              /\ At(r.Ext_y, Pick(idx, keep)) = BlobDouble(<<"Ext", 0>>, FieldOffset(w, idx, 1))
        /\ {FieldOffset(w, idx, 0) : idx \in all} \cup {FieldOffset(w, idx, 1) : idx \in all}
              = 0..(need - 1)
        /\ Product(r.Ext_x.shape) + Product(r.Ext_y.shape) = need

C4_FieldLayout ==
    LET w == Written
    IN  \A l \in Loads : (~Failed(l.r) /\ l.field) => FieldDecodedAsClaimed(l.r, w)

C4_Witness ==
    \E l \in Loads :
        /\ ~Failed(l.r) /\ l.field
        /\ IsVolumetric(GivenInt("symmetryType"))
        /\ GivenInt("Nsims") > 1 /\ GivenInt("Nsims2") > 1
        /\ l.r.Ext_y.shape = <<8, 8, 8, GivenInt("Nsims"), GivenInt("Nsims2")>>

(***************************************************************************)
(* C5.  The spectrum decoder: each of spectrum_x, spectrum_y and           *)
(* spectrumTotal has the shape (Nsims2, Nsims, Nfreq) without its axes of  *)
(* extent 1, batch indices first and frequency last, and its element at    *)
(* (b2, b, f) is the double of the blob at offset                          *)
(* f + Nfreq*(channel + 3*(b + Nsims*b2)), channel 0 for x, 1 for y and 2  *)
(* for the total.                                                          *)
(***************************************************************************)
SpectrumFullShape(w) == <<w.Nsims2, w.Nsims, w.Nfreq>>

SpectrumOffset(w, idx, channel) ==
    idx[3] + w.Nfreq * (channel + 3 * (idx[2] + w.Nsims * idx[1]))

SpectrumChannelAsClaimed(a, w, channel) ==
    LET full == SpectrumFullShape(w)
        keep == KeepAxes(full, 1)
    IN  /\ a.shape = SqueezedShape(full)
        /\ \A idx \in Indices(full) :
              At(a, Pick(idx, keep))
                 = BlobDouble(<<"spectrum", 0>>, SpectrumOffset(w, idx, channel))

C5_SpectrumLayout ==
    LET w == Written
    IN  \A l \in Loads :
           ~Failed(l.r) =>
              /\ SpectrumChannelAsClaimed(l.r.spectrum_x, w, 0)
              /\ SpectrumChannelAsClaimed(l.r.spectrum_y, w, 1)
              /\ SpectrumChannelAsClaimed(l.r.spectrumTotal, w, 2)

C5_Witness ==
    \E l \in Loads :
        /\ ~Failed(l.r)
        /\ GivenInt("Nsims") > 1 /\ GivenInt("Nsims2") > 1
        /\ l.r.spectrum_x.shape = <<GivenInt("Nsims2"), GivenInt("Nsims"), 5>>
        /\ At(l.r.spectrum_x, <<1, 1, 4>>)
              = BlobDouble(<<"spectrum", 0>>, 4 + 5 * (0 + 3 * (1 + GivenInt("Nsims") * 1)))

(***************************************************************************)
(* C6.  Blob lengths, counted in doubles.  With both blobs of exactly the  *)
(* required length the load succeeds; with the field blob (when the field  *)
(* is loaded) or the spectrum blob one double short it fails; with one of  *)
(* them one double long it succeeds and every array equals the one decoded *)
(* from the blobs of exact length.                                         *)
(***************************************************************************)
SameArrays(r, q) ==
    /\ ArraysEqual(r.Ext_x, q.Ext_x)
    /\ ArraysEqual(r.Ext_y, q.Ext_y)
    /\ ArraysEqual(r.spectrum_x, q.spectrum_x)
    /\ ArraysEqual(r.spectrum_y, q.spectrum_y)
    /\ ArraysEqual(r.spectrumTotal, q.spectrumTotal)

LoadPath(zip) == Path("", RunName \o <<IF zip THEN ".zip" ELSE ".txt">>)

C6_BlobLength ==
    \A l \in Loads :
        /\ given.fault = "exact" => ~Failed(l.r)
        /\ (given.fault = "ExtShort" /\ l.field) => l.r.err = "ValueError"
        /\ given.fault = "spectrumShort" => l.r.err = "ValueError"
        /\ given.fault \in {"ExtLong", "spectrumLong"} =>
              /\ ~Failed(l.r)
              /\ SameArrays(l.r, load(WrittenRun(RunName, 0, given.over, 0, 0),
                                      LoadPath(l.zip), l.field))

C6_Witness ==
    \E l \in Loads :
        /\ given.fault = "ExtLong" /\ l.field /\ ~Failed(l.r)
        /\ RopeLen(l.r.Ext_x.buf) = ItemSize * (Product(l.r.Ext_x.shape) * 2 + 1)

(***************************************************************************)
(* C7.  The same bytes loaded from the flat files and from the entries of  *)
(* an archive give the same outcome: both loads fail, or both succeed with *)
(* equal arrays.                                                           *)
(***************************************************************************)
C7_SourceIndependent ==
    ("load" \in done /\ "loadZip" \in done) =>
        /\ Failed(res) <=> Failed(resz)
        /\ ~Failed(res) => SameArrays(res, resz)

(***************************************************************************)
(* C10.  The derived grid.  Ntime and Nspace are the multiples of 8        *)
(* nearest to timeSpan/timeStep and spatialWidth/spatialStep (of two       *)
(* equally near multiples the even multiple: round is np.round); Nspace2   *)
(* is the same of spatialHeight/spatialStep for symmetryType 2 or 4 and 1  *)
(* otherwise; Nfreq = Ntime/2 + 1; Ngrid = Ntime*Nspace*Nspace2; a ratio   *)
(* of 100 gives Ntime = 96 and Nfreq = 49; two derivations from the same   *)
(* parameters agree; and a load fails only where Ntime rounds to 0, on the *)
(* division by it.                                                         *)
(***************************************************************************)
RoundedToGrid(n, ratio) ==
    LET dist == RAbs(RSub(ratio, RInt(n)))
    IN  /\ n % MIN_GRIDDIM = 0
        /\ RLeq(dist, Rat(MIN_GRIDDIM, 2))
        /\ dist = Rat(MIN_GRIDDIM, 2) => (n \div MIN_GRIDDIM) % 2 = 0

GridOf(r) ==
    [n \in {"Ntime", "Nfreq", "Nspace", "Nspace2", "Ngrid"} |-> IntAttr(r, n)]

GridAsClaimed(r) ==
    LET p == given.over
        g == GridOf(r)
        ratio == RDiv(p["timeSpan"], p["timeStep"])
    IN  /\ RoundedToGrid(g["Ntime"], ratio)
        /\ RoundedToGrid(g["Nspace"], RDiv(p["spatialWidth"], p["spatialStep"]))
        /\ IF IsVolumetric(GivenInt("symmetryType"))
           THEN RoundedToGrid(g["Nspace2"], RDiv(p["spatialHeight"], p["spatialStep"]))
           ELSE g["Nspace2"] = 1
        /\ 2 * g["Nfreq"] = g["Ntime"] + 2
        /\ g["Ngrid"] = g["Ntime"] * g["Nspace"] * g["Nspace2"]
        /\ ratio = RInt(100) => (g["Ntime"] = 96 /\ g["Nfreq"] = 49)

C10_GridDimensions ==
    /\ \A l \in Loads : ~Failed(l.r) => GridAsClaimed(l.r)
    /\ \A l \in Loads :
          Failed(l.r) =>
              /\ l.r.err = "ZeroDivisionError"
              /\ RoundedToGrid(0, RDiv(given.over["timeSpan"], given.over["timeStep"]))
    /\ ("load" \in done /\ "loadZip" \in done /\ ~Failed(res) /\ ~Failed(resz))
          => GridOf(res) = GridOf(resz)

C10_Witness ==
    /\ "load" \in done /\ "loadZip" \in done /\ ~Failed(res) /\ ~Failed(resz)
    /\ RDiv(given.over["timeSpan"], given.over["timeStep"]) = RInt(100)
    /\ IntAttr(res, "Ntime") = 96
    /\ IntAttr(res, "Nspace") = 16
    /\ IntAttr(res, "Nspace2") = 8

(***************************************************************************)
(* C8.  The batch axes.  For every batchIndex and batchIndex2 in 0..37 the *)
(* load succeeds and, in both slots: batchStart is the manifest value of   *)
(* the parameter the table names (0 where it names none), batchDestination *)
(* is its manifest value times the unit of the index, and batchVector has  *)
(* Nsims entries, the k-th being                                           *)
(* batchStart + k*(scaledDestination - batchStart)/(Nsims - 1), or the     *)
(* single entry batchStart when Nsims = 1.                                 *)
(***************************************************************************)
TableIndices == 0..37

ManifestValue(n) ==
    IF n \in DOMAIN given.over THEN given.over[n] ELSE RInt(100 + ParameterIndex(n))

ScanAsClaimed(r, e, start, destination, vector, num) ==
    /\ e.known
    /\ e.start # "" => e.start \in {parameterNames[i] : i \in 1..Len(parameterNames)}
    /\ LET b == IF e.start = "" THEN RInt(0) ELSE ManifestValue(e.start)
           first == LinOfRat(b)
           last == Scaled(ManifestValue(destination), e.unit)
       IN  /\ HasAttr(r, start)
           /\ r.attrs[start] = b
           /\ AttrValue(r, destination) = last
           /\ r[vector].kind = "array"
           /\ Len(r[vector].v) = num
           /\ \A k \in 0..(num - 1) :
                 r[vector].v[k + 1] =
                     IF num = 1 THEN first
                     ELSE LinAdd(first, LinTimes(Rat(k, num - 1), LinSub(last, first)))
           /\ num >= 1 => (r[vector].v[1] = first /\ (num >= 2 => r[vector].v[num] = last))

C8_BatchVector ==
    \A l \in Loads :
        (GivenInt("batchIndex") \in TableIndices /\ GivenInt("batchIndex2") \in TableIndices) =>
            /\ ~Failed(l.r)
            /\ ScanAsClaimed(l.r, BatchTable(GivenInt("batchIndex")), "batchStart",
                             "batchDestination", "batchVector", GivenInt("Nsims"))
            /\ ScanAsClaimed(l.r, BatchTable2(GivenInt("batchIndex2")), "batchStart2",
                             "batchDestination2", "batchVector2", GivenInt("Nsims2"))

(***************************************************************************)
(* C9.  A load whose batchIndex or batchIndex2 is outside 0..37 ends in an *)
(* error and returns no result: the slot with the unknown index gets no    *)
(* batchStart and no batch vector, and the error is the one raised where   *)
(* the missing batchStart is read.                                         *)
(***************************************************************************)
NoScanProduced(r, start, vector) == ~HasAttr(r, start) /\ r[vector] = NoVector

C9_UnknownBatchAxis ==
    \A l \in Loads :
        LET unknown == GivenInt("batchIndex") \notin TableIndices
            unknown2 == GivenInt("batchIndex2") \notin TableIndices
        IN  /\ (unknown \/ unknown2) => l.r.err = "AttributeError"
            /\ unknown => NoScanProduced(l.r, "batchStart", "batchVector")
            /\ unknown2 => NoScanProduced(l.r, "batchStart2", "batchVector2")

C9_Witness ==
    /\ "load" \in done /\ "loadZip" \in done
    /\ GivenInt("batchIndex") = 38
    /\ GivenInt("batchIndex2") = 9
    /\ Failed(res) /\ Failed(resz)
    /\ HasAttr(res, "Nfreq")

(***************************************************************************)
(* C1.  The round trip of fuseBinaries.  Let the shards of the directory   *)
(* share one grid and each hold the data of one simulation.  Then a load   *)
(* of the manifest of the whole run (Nsims = N) made after fuseBinaries    *)
(* succeeds, and Ext_x, Ext_y, spectrum_x, spectrum_y and spectrumTotal    *)
(* equal, element for element, the arrays of the shards loaded one by one  *)
(* and stacked in shard order (the order of the names of their files)      *)
(* along the batch axis: the last axis of a field, the first of a          *)
(* spectrum; no axis is added for N = 1.                                   *)
(***************************************************************************)
(* the place of shard a among the shards: how many names precede its name *)
SlotOf(a) ==
    Cardinality({b \in given.shards :
                    StrLess(ShardBase(b) \o <<"_Ext.dat">>, ShardBase(a) \o <<"_Ext.dat">>)})

CalledAfter(later, earlier) ==
    \E i, j \in DOMAIN calls : i < j /\ calls[i] = earlier /\ calls[j] = later

ShardLoad(i) == load(fs, Path("", ShardBase(i) \o <<".txt">>), TRUE)

(* slot k (from 0) of the N slots of a stacked array is the array one *)
StackedField(stacked, one, k, N) ==
    /\ stacked.shape = (IF N = 1 THEN one.shape ELSE one.shape \o <<N>>)
    /\ \A idx \in Indices(one.shape) :
          At(stacked, IF N = 1 THEN idx ELSE idx \o <<k>>) = At(one, idx)

StackedSpectrum(stacked, one, k, N) ==
    /\ stacked.shape = (IF N = 1 THEN one.shape ELSE <<N>> \o one.shape)
    /\ \A idx \in Indices(one.shape) :
          At(stacked, IF N = 1 THEN idx ELSE <<k>> \o idx) = At(one, idx)

StackedShard(r, one, k, N) ==
    /\ ~Failed(one)
    /\ StackedField(r.Ext_x, one.Ext_x, k, N)
    /\ StackedField(r.Ext_y, one.Ext_y, k, N)
    /\ StackedSpectrum(r.spectrum_x, one.spectrum_x, k, N)
    /\ StackedSpectrum(r.spectrum_y, one.spectrum_y, k, N)
    /\ StackedSpectrum(r.spectrumTotal, one.spectrumTotal, k, N)

C1_FuseBinariesRoundTrip ==
    CalledAfter("load", "fuseBinaries") =>
        LET N == Cardinality(given.shards)
        IN  /\ ~Failed(res)
            /\ IntAttr(res, "Nsims") = N
            /\ \A a \in given.shards : StackedShard(res, ShardLoad(a), SlotOf(a), N)

C1_Witness ==
    /\ CalledAfter("load", "fuseBinaries")
    /\ given.shards = {0, 1}
    /\ GivenInt("symmetryType") = 2
    /\ (RunName \o <<".zip">>) \in DOMAIN fs
    /\ (RunName \o <<"_Ext.dat">>) \in DOMAIN fs[RunName \o <<".zip">>].entries
    /\ ~Failed(res)
    /\ res.Ext_x.shape = <<8, 8, 8, 2>>
    /\ res.spectrum_x.shape = <<2, 5>>

(***************************************************************************)
(* C2.  fuseZips against fuseBinaries.  Once both have run, fuseZips has   *)
(* ended without an error, the entries R_Ext.dat and R_spectrum.dat of     *)
(* R.zip hold the bytes of the files R_Ext.dat and R_spectrum.dat, and the *)
(* two routines visited the shards in the same order.                      *)
(***************************************************************************)
IsFileVisit(line) ==
    line.by = "fuseBinaries" /\ line.what = "file" /\ EndsWith(line.names[1], "_Ext.dat")

IsArchiveVisit(line) == line.by = "fuseZips" /\ line.what = "currentBase"

FilesVisited ==
    LET lines == SelectSeq(stdout, IsFileVisit)
    IN  [i \in 1..Len(lines) |-> SubSeq(lines[i].names[1], 1, Len(lines[i].names[1]) - 1)]

ArchivesVisited ==
    LET lines == SelectSeq(stdout, IsArchiveVisit)
    IN  [i \in 1..Len(lines) |-> lines[i].names[1]]

SameBytes(ending) ==
    LET name == RunName \o <<ending>>
        archive == RunName \o <<".zip">>
    IN  /\ name \in DOMAIN fs
        /\ archive \in DOMAIN fs
        /\ name \in DOMAIN fs[archive].entries
        /\ fs[archive].entries[name].bytes = fs[name].bytes

C2_FuseZipsAsFuseBinaries ==
    ("fuseBinaries" \in done /\ "fuseZips" \in done) =>
        /\ raised["fuseZips"] = ""
        /\ SameBytes("_Ext.dat")
        /\ SameBytes("_spectrum.dat")
        /\ ArchivesVisited = FilesVisited

(***************************************************************************)
(* C3.  The batch vector of loadSplit.  When loadSplit(R, N, batchType)    *)
(* has returned, batchVector holds N values and the k-th is the value of   *)
(* the parameter batchType in the manifest of shard k, as parsed.          *)
(***************************************************************************)
ShardParameter(k, n) ==
    readLine(fs[ShardBase(k) \o <<".txt">>].lines[ParameterIndex(n)])

C3_SplitBatchVector ==
    ("loadSplit" \in done /\ ~Failed(split)) =>
        /\ split.batchVector.kind # "none"
        /\ Len(split.batchVector.v) = given.Ntotal
        /\ \A k \in 0..(given.Ntotal - 1) :
              split.batchVector.v[k + 1] = LinOfRat(ShardParameter(k, given.batchType))

(***************************************************************************)
(* C11.  The schema has 59 names, no two alike.  A load reads the first 59 *)
(* lines of the manifest and no line after them: it ends with a parse      *)
(* error (IndexError or ValueError) exactly when one of these lines is     *)
(* missing, holds no number, or ends with a number that is no float; and   *)
(* otherwise the i-th name is bound to the last number of the i-th line,   *)
(* truncated toward zero for Nsims, Nsims2, symmetryType, batchIndex and   *)
(* batchIndex2.  A manifest of 59 well-formed lines loads without a parse  *)
(* error, and one of 57 lines does not load.                               *)
(***************************************************************************)
ManifestOf(l) ==
    IF l.zip THEN fs[RunName \o <<".zip">>].entries[RunName \o <<".txt">>].lines
    ELSE fs[RunName \o <<".txt">>].lines

WellFormed(lines, i) ==
    /\ i <= Len(lines)
    /\ lines[i][Len(lines[i])].num
    /\ lines[i][Len(lines[i])].txt = ""

ParseErrors == {"IndexError", "ValueError"}

IsTruncationOf(z, v) ==
    /\ z[2] = 1
    /\ RLeq(RAbs(z), RAbs(v))
    /\ RAbs(RSub(v, z)) # <<1, 1>> /\ RLeq(RAbs(RSub(v, z)), <<1, 1>>)
    /\ z[1] * v[1] >= 0

BoundAsClaimed(r, lines, count) ==
    \A i \in 1..count :
        LET name == parameterNames[i]
            last == lines[i][Len(lines[i])].val
        IN  /\ HasAttr(r, name)
            /\ IF name \in {IntegerParameters[k] : k \in DOMAIN IntegerParameters}
               THEN IsTruncationOf(r.attrs[name], last)
               ELSE r.attrs[name] = last

SchemaAsClaimed(count) ==
    /\ Len(parameterNames) = count
    /\ \A i, j \in 1..Len(parameterNames) : parameterNames[i] = parameterNames[j] => i = j
    /\ \A l \in Loads :
          LET lines == ManifestOf(l)
              parsed == \A i \in 1..count : WellFormed(lines, i)
          IN  /\ parsed <=> l.r.err \notin ParseErrors
              /\ parsed => ~Failed(l.r) /\ BoundAsClaimed(l.r, lines, count)

C11_ManifestSchema ==
    /\ SchemaAsClaimed(59)
    /\ \A l \in Loads : Len(ManifestOf(l)) = 57 => l.r.err \in ParseErrors

(* the manifest has lines after the 59th, every line holds two numbers, the *)
(* integer parameters are written with a fractional part, and both loads   *)
(* returned                                                                *)
C11_Witness ==
    /\ "load" \in done /\ "loadZip" \in done
    /\ Len(fs[RunName \o <<".txt">>].lines) = 60
    /\ \A i \in 1..59 : Len(FindAll(fs[RunName \o <<".txt">>].lines[i])) = 2
    /\ ~readLineOk(fs[RunName \o <<".txt">>].lines[60])
    /\ given.over["Nsims2"] = Rat(7, 3)
    /\ ~Failed(res) /\ ~Failed(resz)
    /\ res.attrs["Nsims2"] = RInt(2) /\ res.attrs["batchIndex"] = RInt(0)

(* the statement with a schema of 57 names: a manifest of 57 well-formed   *)
(* lines loads without a parse error                                       *)
C11_Schema57 ==
    \A l \in Loads :
        LET lines == ManifestOf(l)
        IN  (Len(lines) = 57 /\ \A i \in 1..57 : WellFormed(lines, i))
                => l.r.err \notin ParseErrors

(***************************************************************************)
(* C12.  Shards of unequal grids.  When loadSplit has ended and some shard *)
(* k >= 1 that it was asked for has derived dimensions (Ntime, Nfreq,      *)
(* Nspace, Nspace2) other than those of shard 0, loadSplit has failed: it  *)
(* has returned no result.                                                 *)
(***************************************************************************)
GridParameters == {"timeSpan", "timeStep", "spatialWidth", "spatialHeight",
                   "spatialStep", "symmetryType"}

ShardGrid(k) == WrittenGrid([n \in GridParameters |-> ShardParameter(k, n)])

ShardsAsked == {k \in given.shards : k < given.Ntotal}

MismatchedShards == {k \in ShardsAsked \ {0} : ShardGrid(k) # ShardGrid(0)}

C12_ShardShapeMismatch ==
    ("loadSplit" \in done /\ MismatchedShards # {}) => Failed(split)

(***************************************************************************)
(* C13.  The slots of loadSplit.  When loadSplit(R, N, batchType) has      *)
(* returned a result, every shard R0000 .. R(N-1) loads, and for every k   *)
(* in 0..N-1 the slice k of the trailing axis (of extent N) of Ext_x and   *)
(* of Ext_y, and the row k of the N rows of spectrum_x, spectrum_y and     *)
(* spectrumTotal, are the arrays that a load of shard k decodes.           *)
(***************************************************************************)
SliceIs(stacked, one, k, N) ==
    /\ stacked.shape = one.shape \o <<N>>
    /\ \A idx \in Indices(one.shape) : At(stacked, idx \o <<k>>) = At(one, idx)

RowIs(stacked, one, k, N) ==
    /\ stacked.shape = <<N>> \o one.shape
    /\ \A idx \in Indices(one.shape) : At(stacked, <<k>> \o idx) = At(one, idx)

SlotIsShard(r, one, k, N) ==
    /\ ~Failed(one)
    /\ SliceIs(r.Ext_x, one.Ext_x, k, N)
    /\ SliceIs(r.Ext_y, one.Ext_y, k, N)
    /\ RowIs(r.spectrum_x, one.spectrum_x, k, N)
    /\ RowIs(r.spectrum_y, one.spectrum_y, k, N)
    /\ RowIs(r.spectrumTotal, one.spectrumTotal, k, N)

C13_SplitSlots ==
    ("loadSplit" \in done /\ ~Failed(split)) =>
        \A k \in 0..(given.Ntotal - 1) :
            /\ k \in given.shards
            /\ SlotIsShard(split, ShardLoad(k), k, given.Ntotal)

(***************************************************************************)
(* C14.  The output of fuseBinaries.  When fuseBinaries has run, each of   *)
(* R_Ext.dat and R_spectrum.dat holds the bytes of the other files whose   *)
(* names start with R and end with the same suffix, and nothing else: the  *)
(* bytes of each source are in the output whole and in one piece, at the   *)
(* offset that is the total length of the sources whose names precede its  *)
(* name in the order of strings.  No byte of a file that had the output's  *)
(* name before the call is in the output, and the output is not in the     *)
(* list of the files that were read.                                       *)
(***************************************************************************)
SourcesOf(ending) ==
    {n \in DOMAIN fs \ {RunName \o <<ending>>} :
        StartsWith(n, RunName) /\ EndsWith(n, ending)}

RECURSIVE TotalLength(_)
TotalLength(S) ==
    IF S = {} THEN 0
    ELSE LET n == CHOOSE x \in S : TRUE
         IN  RopeLen(fs[n].bytes) + TotalLength(S \ {n})

Preceding(S, n) == {m \in S : StrLess(m, n)}

IsFiles(line) == line.by = "fuseBinaries" /\ line.what = "files"

FusedAsClaimed(ending) ==
    LET output == RunName \o <<ending>>
        S == SourcesOf(ending)
    IN  /\ output \in DOMAIN fs
        /\ RopeLen(fs[output].bytes) = TotalLength(S)
        /\ \A n \in S :
              RopeTake(RopeDrop(fs[output].bytes, TotalLength(Preceding(S, n))),
                       RopeLen(fs[n].bytes)) = fs[n].bytes
        /\ \A i \in DOMAIN fs[output].bytes : fs[output].bytes[i].id[2] # Stale
        /\ \A i \in DOMAIN stdout :
              IsFiles(stdout[i]) => \A j \in DOMAIN stdout[i].names :
                                        stdout[i].names[j] # output

C14_FuseBinariesOutput ==
    "fuseBinaries" \in done => FusedAsClaimed("_Ext.dat") /\ FusedAsClaimed("_spectrum.dat")

(* three shards, two of them of ordinals of unequal width, in a directory  *)
(* that held the output of an earlier fusion (the archive R.zip still      *)
(* holds its copy)                                                         *)
C14_Witness ==
    /\ "fuseBinaries" \in done /\ "fuseZips" \notin done
    /\ given.shards = {0, 1000, 10000}
    /\ (RunName \o <<"_Ext.dat">>) \in DOMAIN fs[RunName \o <<".zip">>].entries
    /\ fs[RunName \o <<".zip">>].entries[RunName \o <<"_Ext.dat">>].bytes[1].id[2] = Stale
    /\ Len(fs[RunName \o <<"_Ext.dat">>].bytes) = 3

(***************************************************************************)
(* C15.  The sources of fuseZips.  When fuseZips has run, whether it was   *)
(* given R.zip or ./R.zip, the archive R.zip that it writes is not in the  *)
(* sorted list of the archives it reads.                                   *)
(***************************************************************************)
IsArchiveList(line) == line.by = "fuseZips" /\ line.what = "files"

C15_DestinationExcluded ==
    "fuseZips" \in done =>
        \A i \in DOMAIN stdout :
            IsArchiveList(stdout[i]) =>
                \A j \in DOMAIN stdout[i].names : stdout[i].names[j] # RunName \o <<".zip">>

(***************************************************************************)
(* C16.  No partial output.  A call of fuseBinaries that ends with an      *)
(* error leaves each of R_Ext.dat and R_spectrum.dat absent or as it was   *)
(* before the call, and a call of fuseZips that ends with an error leaves  *)
(* R.zip absent or as it was before the call.                              *)
(***************************************************************************)
Ends(call) == call \notin done /\ call \in done'

AsBefore(name) == name \notin DOMAIN fs' \/ (name \in DOMAIN fs /\ fs'[name] = fs[name])

NoPartialOutput ==
    /\ (Ends("fuseBinaries") /\ raised'["fuseBinaries"] # "") =>
          AsBefore(RunName \o <<"_Ext.dat">>) /\ AsBefore(RunName \o <<"_spectrum.dat">>)
    /\ (Ends("fuseZips") /\ raised'["fuseZips"] # "") => AsBefore(RunName \o <<".zip">>)

C16_FailedFusion == [][NoPartialOutput]_vars

(***************************************************************************)
(* C17.  Handles and temporary files.  A load that has ended, with a       *)
(* result or with an error, has closed every handle it opened; fuseZips,   *)
(* once it has ended with or without an error, has left no temporary file  *)
(* behind.                                                                 *)
(***************************************************************************)
C17_Released ==
    /\ \A l \in Loads : l.r.unclosed = {}
    /\ "fuseZips" \in done => temp = {}

(***************************************************************************)
(* C18.  The axes the field decoder removes.  Of the shape (Ntime, Nspace, *)
(* [Nspace2,] Nsims, Nsims2) a load that returns the field keeps the grid  *)
(* axes and removes the batch axes of extent 1 at the end only: the Nsims2 *)
(* axis when Nsims2 = 1, and then the Nsims axis when Nsims = 1 as well.   *)
(* With Nsims = 1 and Nsims2 > 1 the Nsims axis stays.                     *)
(***************************************************************************)
RECURSIVE WithoutTrailingOnes(_, _)
WithoutTrailingOnes(shape, least) ==
    IF Len(shape) > least /\ shape[Len(shape)] = 1
    THEN WithoutTrailingOnes(SubSeq(shape, 1, Len(shape) - 1), least)
    ELSE shape

C18_TrailingAxesOnly ==
    LET w == Written
        grid == IF w.volumetric THEN 3 ELSE 2
    IN  \A l \in Loads :
            (~Failed(l.r) /\ l.field) =>
                /\ l.r.Ext_x.shape = WithoutTrailingOnes(FieldFullShape(w), grid)
                /\ l.r.Ext_y.shape = WithoutTrailingOnes(FieldFullShape(w), grid)

(***************************************************************************)
(* C19.  The batch descriptors of loadSplit.  When loadSplit(R, N,         *)
(* batchType) has returned a result, its Nsims is N, the last axis of      *)
(* Ext_x and of Ext_y and the first axis of the three spectra have extent  *)
(* N, and batchVector is a sequence of N values, for N = 1 as well.        *)
(***************************************************************************)
LastExtent(a) == IF a.shape = <<>> THEN 0 ELSE a.shape[Len(a.shape)]

FirstExtent(a) == IF a.shape = <<>> THEN 0 ELSE a.shape[1]

C19_SplitDescriptors ==
    ("loadSplit" \in done /\ ~Failed(split)) =>
        LET N == given.Ntotal
        IN  /\ HasAttr(split, "Nsims") /\ IntAttr(split, "Nsims") = N
            /\ LastExtent(split.Ext_x) = N /\ LastExtent(split.Ext_y) = N
            /\ FirstExtent(split.spectrum_x) = N /\ FirstExtent(split.spectrum_y) = N
            /\ FirstExtent(split.spectrumTotal) = N
            /\ split.batchVector = ArrayVector(split.batchVector.v)
            /\ Len(split.batchVector.v) = N

(***************************************************************************)
(* C20.  frequencyVector after construction.  A load that returns leaves   *)
(* frequencyVector with Ntime entries, entry k being k * fStep for         *)
(* k < Ntime/2 and (k - Ntime) * fStep for k >= Ntime/2, where fStep is    *)
(* 1/(Ntime * timeStep): the entry at index Ntime/2 is negative.           *)
(***************************************************************************)
FftOrdered(v, Ntime, timeStep) ==
    LET fStep == RDiv(RInt(1), RMul(RInt(Ntime), timeStep))
    IN  /\ Len(v) = Ntime
        /\ \A k \in 0..(Ntime - 1) :
              RIsZero(RSub(v[k + 1],
                           RMul(RInt(IF 2 * k < Ntime THEN k ELSE k - Ntime), fStep)))

C20_FrequencyVector ==
    \A l \in Loads :
        ~Failed(l.r) =>
            /\ FftOrdered(l.r.frequencyVector, Written.Ntime, given.over["timeStep"])
            /\ l.r.frequencyVector[Written.Ntime \div 2 + 1][1] < 0

(***************************************************************************)
(* C21.  The batch table is one-to-one.  In a load that returns with       *)
(* batchIndex = i and batchIndex2 = j, both in 1..35: if i = j the two     *)
(* slots took their start from the same parameter and scaled their         *)
(* destination by the same unit; if i # j the two slots took their start   *)
(* from different parameters.  (As the two slots agree on every index,     *)
(* this is the same as no two indices sharing a parameter in either slot.) *)
(***************************************************************************)
OriginOf(r, start) ==
    {n \in {parameterNames[k] : k \in 1..Len(parameterNames)} :
        HasAttr(r, start) /\ ManifestValue(n) = r.attrs[start]}

C21_TableOneToOne ==
    \A l \in Loads :
        LET i == GivenInt("batchIndex")
            j == GivenInt("batchIndex2")
            origin == OriginOf(l.r, "batchStart")
            origin2 == OriginOf(l.r, "batchStart2")
        IN  (~Failed(l.r) /\ i \in OriginIndices /\ j \in OriginIndices) =>
                /\ origin # {} /\ origin2 # {}
                /\ i = j => /\ origin = origin2
                            /\ UnitOf(l.r, "batchDestination") = UnitOf(l.r, "batchDestination2")
                /\ i # j => origin \cap origin2 = {}

=============================================================================
